---------------------------- MODULE Spec2Model ----------------------------
(***************************************************************************)
(* A model of the orchestration subsystem of meta-ai-orchestrator:         *)
(*   - PriorityScheduler      (crates/orchestrator/src/scheduler.rs)       *)
(*   - TaskDispatcher         (crates/orchestrator/src/dispatcher.rs)      *)
(*   - MetaAIOrchestrator     (crates/orchestrator/src/lib.rs)             *)
(*   - DagExecutorImpl        (crates/orchestrator/src/dag.rs)             *)
(* Each component has its own specification (SchedSpec, DispSpec, OrchSpec,*)
(* DagSpec) over the shared variables; the variables of the components a   *)
(* specification does not exercise stay at their initial values.           *)
(***************************************************************************)
EXTENDS Integers, Sequences, FiniteSets, TLC

(***************************************************************************)
(* Bounds of the model.                                                    *)
(***************************************************************************)
\* task ids are 1..NumTasks
NumTasks == 2
\* the clocks run from 0 to MaxTime
MaxTime == 1
\* at most MaxInsertions successful schedule and requeue calls in one behaviour
MaxInsertions == 2
\* dispatch is called by NumCalls concurrent callers, once each
NumCalls == 3
\* TaskDispatcher::new is called with a capacity in 1..MaxConcurrent
MaxConcurrent == 2
\* OrchestratorConfig.retry_attempts is in 0..MaxRetryAttempts
MaxRetryAttempts == 3
\* execute_task is called for the tasks 1..NumSubmitted, once each
NumSubmitted == 1
\* a TaskDag has the nodes 1..n, n <= NumNodes, and at most MaxEdges edges
NumNodes == 3
MaxEdges == 3
\* usize::MAX of the model: a usize value is in 0..MaxUsize
MaxUsize == 3
MaxPreMarked == 1
MaxAgents == 3

TaskIds == 1..NumTasks

\* types.rs: Priority { Low = 0, Medium = 1, High = 2, Critical = 3 }
Low == 0
Medium == 1
High == 2
Critical == 3
Priorities == {Low, Medium, High, Critical}

VARIABLES
    \* ---- clocks ----
    now,              \* std::time::Instant / tokio time (monotonic)
    wall,             \* std::time::SystemTime, in the clock's resolution
    \* ---- PriorityScheduler ----
    max_queue_size,   \* PriorityScheduler.max_queue_size
    queue,            \* PriorityQueue<TaskId, PriorityWrapper>: id -> wrapper
    tasks,            \* HashMap<TaskId, ScheduledTask>
    stats,            \* SchedulerStats
    \* ---- observations of the scheduler's callers ----
    lastOp,           \* the last observed call and what it returned
    afterFull,        \* 1: the last call was a queue-full schedule;
                      \* 2: a queue-full schedule, then one successful next
    schedOrder,       \* queued id -> number of the insertion that queued it
    returned,         \* the last two tasks next() returned since the last
                      \* insertion, oldest first
    \* ---- TaskDispatcher ----
    max_concurrent,   \* TaskDispatcher.max_concurrent
    semaphore,        \* TaskDispatcher.semaphore: the permits available
    active_requests,  \* DashMap<TaskId, DispatchedRequest>
    request_counter,  \* TaskDispatcher.request_counter
    \* ---- the dispatch calls in progress ----
    dpc,              \* call -> "idle" | "acquire" | "select" | "submit" | "returned"
    dtask,            \* call -> request.task_id (0 outside the call)
    dagent,           \* call -> the agent select_agent chose (0: none)
    dresults,         \* what the calls that returned have returned:
                      \* a subset of {"ok", "agent_error", "no_agents"}
    \* ---- MetaAIOrchestrator ----
    config,           \* OrchestratorConfig (durations in poll intervals)
    active_tasks,     \* DashMap<TaskId, Task>: id -> the stored task's status
    task_semaphore,   \* MetaAIOrchestrator.task_semaphore: permits available
    \* ---- the loop start() spawns ----
    lpc,              \* "off" | "next" | "acquire" | "sleep"
    ltask,            \* the task the loop holds while it acquires (0: none)
    \* ---- the execution units the loop spawns, one per dequeued task ----
    upc,              \* id -> "none" | "loop" | "submit" | "delay" | "done"
    attempts,         \* id -> execute_task_with_retry's attempts
    last_error,       \* id -> execute_task_with_retry's last_error
    ulog,             \* id -> what each attempt so far ended with
    uret,             \* id -> what execute_task_with_retry returned
    \* ---- the execute_task calls, one per task ----
    cpc,              \* id -> "idle" | "sleep" | "poll" | "returned"
    cdeadline,        \* id -> the instant at which the call's timeout elapses
    cresult,          \* id -> what the call returned
    \* ---- DagExecutorImpl and one validate_dag call ----
    self_max_depth,   \* DagExecutorImpl.max_depth
    overflow_checks,  \* the build: TRUE panics on integer overflow (debug),
                      \* FALSE wraps (release)
    dag,              \* the TaskDag passed to validate_dag
    vpc,              \* "idle" | "depth" | "returned" | "panicked"
    bfs_queue,        \* calculate_depth: queue of <<node, depth>>
    depths,           \* calculate_depth: depths
    max_depth,        \* calculate_depth: max_depth
    validation,       \* the DagValidation (complete once vpc = "returned")
    \* ---- one topological_sort call ----
    topo_result,      \* what the call returned (called = FALSE: not called)
    \* ---- one execute_dag call ----
    epc,              \* "idle" | "validating" | "returned"
    exec_result,      \* what the call returned
    \* ---- one select_agent call with its inputs ----
    sel               \* who was called, with what, and the agent returned

schedVars == <<max_queue_size, queue, tasks, stats>>
schedObs == <<lastOp, afterFull, schedOrder, returned>>
clockVars == <<now, wall>>
dispVars == <<max_concurrent, semaphore, active_requests, request_counter>>
callVars == <<dpc, dtask, dagent, dresults>>
orchVars == <<config, active_tasks, task_semaphore>>
loopVars == <<lpc, ltask>>
unitVars == <<upc, attempts, last_error, ulog, uret>>
execVars == <<cpc, cdeadline, cresult>>
orchAll == <<orchVars, loopVars, unitVars, execVars>>
dagVars == <<self_max_depth, overflow_checks, dag, vpc, bfs_queue, depths,
             max_depth, validation>>
topoVars == <<topo_result>>
execDagVars == <<epc, exec_result>>
dagAll == <<dagVars, topoVars, execDagVars>>
selVars == <<sel>>
vars == <<clockVars, schedVars, schedObs, dispVars, callVars, orchAll, dagAll, selVars>>

(***************************************************************************)
(* Helpers on finite maps.                                                 *)
(***************************************************************************)
EmptyMap == [x \in {} |-> 0]

MapPut(m, k, v) == [x \in (DOMAIN m) \cup {k} |-> IF x = k THEN v ELSE m[x]]

MapRemove(m, k) == [x \in (DOMAIN m) \ {k} |-> m[x]]

LastN(s, n) == IF Len(s) <= n THEN s ELSE SubSeq(s, Len(s) - n + 1, Len(s))

(***************************************************************************)
(* PriorityScheduler                                                       *)
(***************************************************************************)
\* A Task as its callers build it: created Pending (types.rs Default).
Task(id, p) == [id |-> id, priority |-> p, status |-> "Pending"]

\* impl Ord for PriorityWrapper: -1 Less, 0 Equal, 1 Greater.
PriorityWrapperCmpNewestFirst(a, b) ==
    IF a.priority # b.priority
    THEN (IF a.priority < b.priority THEN -1 ELSE 1)
    ELSE IF a.timestamp < b.timestamp THEN -1
         ELSE IF a.timestamp > b.timestamp THEN 1 ELSE 0

PriorityWrapperCmpTimestampOnly(a, b) ==
    IF b.timestamp < a.timestamp THEN -1
    ELSE IF b.timestamp > a.timestamp THEN 1 ELSE 0

PriorityWrapperCmp(a, b) ==
    IF a.priority # b.priority
    THEN (IF a.priority < b.priority THEN -1 ELSE 1)
    ELSE IF b.timestamp < a.timestamp THEN -1
         ELSE IF b.timestamp > a.timestamp THEN 1 ELSE 0

\* create_priority_wrapper: the priority and SystemTime::now() in nanoseconds.
create_priority_wrapper(p) == [priority |-> p, timestamp |-> wall]

\* PriorityQueue::pop returns an item of greatest priority; which one among
\* several that compare Equal is the library's choice.
PopCandidates(q) ==
    {i \in DOMAIN q : \A j \in DOMAIN q : PriorityWrapperCmp(q[i], q[j]) >= 0}

QueueIsFullOffByOne(len, cap) == len > cap

\* schedule_task's capacity check: queue.len() >= self.max_queue_size
QueueIsFull(len, cap) == len >= cap

\* The state a caller of the trait can observe through queue_stats and next.
Snapshot == <<queue, tasks, stats>>

Observe(op, result) ==
    /\ lastOp' = [op |-> op, result |-> result,
                  lenBefore |-> Cardinality(DOMAIN queue),
                  before |-> IF result = "queue_full" THEN Snapshot ELSE <<>>]
    /\ afterFull' = IF op = "schedule" /\ result = "queue_full" THEN 1
                    ELSE IF op = "next" /\ result = "some" /\ afterFull = 1 THEN 2
                    ELSE 0

ScheduleFailCountsAnyway(task) ==
    /\ stats' = [stats EXCEPT !.total_scheduled = @ + 1]
    /\ UNCHANGED <<queue, tasks>>

ScheduleFailQueuesAnyway(task) ==
    /\ tasks' = MapPut(tasks, task.id,
                       [task |-> task, scheduled_at |-> now, attempt_count |-> 0])
    /\ queue' = MapPut(queue, task.id, create_priority_wrapper(task.priority))
    /\ stats' = [stats EXCEPT !.total_scheduled = @ + 1]

\* schedule_task, the early return: nothing is written.
ScheduleFail(task) ==
    UNCHANGED <<queue, tasks, stats>>

\* schedule_task, the insertion.
ScheduleInsert(task) ==
    /\ tasks' = MapPut(tasks, task.id,
                       [task |-> task, scheduled_at |-> now, attempt_count |-> 0])
    /\ queue' = MapPut(queue, task.id, create_priority_wrapper(task.priority))
    /\ stats' = [stats EXCEPT !.total_scheduled = @ + 1]

\* The whole of schedule_task as the scheduler's state sees it; ok is TRUE
\* when it returns Ok(()).
schedule_task(task, ok) ==
    IF QueueIsFull(Cardinality(DOMAIN queue), max_queue_size)
    THEN ok = FALSE /\ ScheduleFail(task)
    ELSE ok = TRUE /\ ScheduleInsert(task)

NextTaskPopKeepsQueued(id) ==
    /\ id \in PopCandidates(queue)
    /\ UNCHANGED queue
    /\ tasks' = MapRemove(tasks, id)
    /\ stats' = [stats EXCEPT
                   !.cumulative_wait_time = @ + (now - tasks[id].scheduled_at)]

\* next_task on a non-empty queue, returning the task of id.
NextTaskPop(id) ==
    /\ id \in PopCandidates(queue)
    /\ queue' = MapRemove(queue, id)
    /\ tasks' = MapRemove(tasks, id)
    /\ stats' = [stats EXCEPT
                   !.cumulative_wait_time = @ + (now - tasks[id].scheduled_at)]

RequeueCountsAsScheduled(task) ==
    /\ LET old == IF task.id \in DOMAIN tasks
                  THEN tasks[task.id]
                  ELSE [task |-> task, scheduled_at |-> now, attempt_count |-> 0]
       IN tasks' = MapPut(tasks, task.id,
                          [old EXCEPT !.task = task,
                                      !.attempt_count = @ + 1])
    /\ queue' = MapPut(queue, task.id, create_priority_wrapper(task.priority))
    /\ stats' = [stats EXCEPT !.total_scheduled = @ + 1]

\* requeue_task: entry-or-insert, then push with a fresh wrapper.
requeue_task(task) ==
    /\ LET old == IF task.id \in DOMAIN tasks
                  THEN tasks[task.id]
                  ELSE [task |-> task, scheduled_at |-> now, attempt_count |-> 0]
       IN tasks' = MapPut(tasks, task.id,
                          [old EXCEPT !.task = task,
                                      !.attempt_count = @ + 1])
    /\ queue' = MapPut(queue, task.id, create_priority_wrapper(task.priority))
    /\ stats' = [stats EXCEPT !.total_requeued = @ + 1]

(***************************************************************************)
(* TaskDispatcher                                                          *)
(***************************************************************************)
Calls == 1..NumCalls

\* The agents handed to dispatch, in list order, by provider (an Agent is a
\* trait object: its availability, health and submit results are its own).
AgentProviders == <<"OpenAI", "Claude">>
Agents == 1..Len(AgentProviders)
\* LlmProvider values a request may ask for.
RequestProviders == {"OpenAI", "Claude", "Copilot"}
SelectionStrategies ==
    {"RoundRobin", "LowestLatency", "BestMatch", "CostOptimized", "Random"}
\* What health_check may return: Err, or Ok with an average_latency_ms.
HealthReports ==
    {[ok |-> FALSE, average_latency_ms |-> 0]}
        \cup {[ok |-> TRUE, average_latency_ms |-> l] : l \in {1, 2}}

\* The increasing sequence of the elements of a set of numbers.
RECURSIVE SortedSeq(_)
SortedSeq(S) ==
    IF S = {} THEN <<>>
    ELSE LET m == CHOOSE x \in S : \A y \in S : x <= y
         IN <<m>> \o SortedSeq(S \ {m})

\* select_agent's filter: the agents that reported available, in list order.
AvailableAgents(avail) == SortedSeq(avail)

\* LowestLatency: the first agent of the list with the least reported
\* latency; the first agent when no health check succeeded.
LowestLatencyPick(available, health) ==
    LET ok == {i \in 1..Len(available) : health[available[i]].ok}
        lat(i) == health[available[i]].average_latency_ms
    IN IF ok = {} THEN available[1]
       ELSE available[CHOOSE i \in ok :
                \A j \in ok : lat(i) < lat(j) \/ (lat(i) = lat(j) /\ i <= j)]

BestMatchFirstAvailable(providers, available, wanted) == available[1]

\* BestMatch over a candidate list given by its providers: the first
\* available agent of the requested provider, else the first available agent.
BestMatch(providers, available, wanted) ==
    LET hits == {i \in 1..Len(available) : providers[available[i]] = wanted}
    IN IF hits = {} THEN available[1]
       ELSE available[CHOOSE i \in hits : \A j \in hits : i <= j]

\* BestMatch on the agents handed to dispatch.
BestMatchPick(available, provider) == BestMatch(AgentProviders, available, provider)

\* TaskDispatcher::select_agent on a non-empty available list: the agent
\* chosen (rnd is the index the random generator drew).
SelectAgent(available, strategy, provider, count, health, rnd) ==
    CASE strategy \in {"RoundRobin", "CostOptimized"} ->
            available[(count % Len(available)) + 1]
      [] strategy = "LowestLatency" -> LowestLatencyPick(available, health)
      [] strategy = "BestMatch" -> BestMatchPick(available, provider)
      [] strategy = "Random" -> available[rnd]

\* What one select_agent call reads besides the availability reports: the
\* strategy, and what that strategy looks at (the rest is left at a default).
NoHealth == [a \in Agents |-> [ok |-> FALSE, average_latency_ms |-> 0]]
SelectInputs ==
    {[strategy |-> st, provider |-> "OpenAI", health |-> NoHealth, rnd |-> 1] :
        st \in {"RoundRobin", "CostOptimized"}}
    \cup {[strategy |-> "LowestLatency", provider |-> "OpenAI", health |-> h, rnd |-> 1] :
        h \in [Agents -> HealthReports]}
    \cup {[strategy |-> "BestMatch", provider |-> pr, health |-> NoHealth, rnd |-> 1] :
        pr \in RequestProviders}
    \cup {[strategy |-> "Random", provider |-> "OpenAI", health |-> NoHealth, rnd |-> r] :
        r \in Agents}

CounterAfterUnchanged(strategy, count) == count

\* select_agent's fetch_add on the shared counter.
CounterAfter(strategy, count) ==
    IF strategy \in {"RoundRobin", "CostOptimized"} THEN count + 1 ELSE count

\* get_stats
DispatchStats ==
    [active_requests |-> Cardinality(DOMAIN active_requests),
     available_capacity |-> semaphore,
     total_capacity |-> max_concurrent]

\* TaskDispatcher::new
DispatcherNew(capacity) ==
    /\ max_concurrent = capacity
    /\ semaphore = capacity
    /\ active_requests = EmptyMap
    /\ request_counter = 0

NoCalls ==
    /\ dpc = [c \in Calls |-> "idle"]
    /\ dtask = [c \in Calls |-> 0]
    /\ dagent = [c \in Calls |-> 0]
    /\ dresults = {}

\* A caller enters dispatch and waits at semaphore.acquire().  (Callers are
\* interchangeable: they are numbered in the order in which they arrive.)
DispatchCall(c, task_id) ==
    /\ dpc[c] = "idle"
    /\ \A b \in Calls : b < c => dpc[b] # "idle"
    /\ dpc' = [dpc EXCEPT ![c] = "acquire"]
    /\ dtask' = [dtask EXCEPT ![c] = task_id]
    /\ UNCHANGED <<dispVars, dagent, dresults>>

PermitAvailableUnchecked(permits) == TRUE

\* Semaphore::acquire completes only when a permit is available.
PermitAvailable(permits) == permits > 0

\* semaphore.acquire() returns the permit.  (tokio grants waiters in arrival
\* order; here any waiter may be granted, which includes that order.)
Acquire(c) ==
    /\ dpc[c] = "acquire"
    /\ PermitAvailable(semaphore)
    /\ semaphore' = semaphore - 1
    /\ dpc' = [dpc EXCEPT ![c] = "select"]
    /\ UNCHANGED <<max_concurrent, active_requests, request_counter,
                   dtask, dagent, dresults>>

NoAgentsExitKeepsPermit(c) ==
    /\ dpc' = [dpc EXCEPT ![c] = "returned"]
    /\ dresults' = dresults \cup {"no_agents"}
    /\ dtask' = [dtask EXCEPT ![c] = 0]
    /\ UNCHANGED <<dispVars, dagent>>

NoAgentsExitTracks(c) ==
    /\ semaphore' = semaphore + 1
    /\ active_requests' =
          MapPut(active_requests, dtask[c],
                 [agent_provider |-> "OpenAI", started_at |-> now, attempt |-> 1])
    /\ dpc' = [dpc EXCEPT ![c] = "returned"]
    /\ dresults' = dresults \cup {"no_agents"}
    /\ dtask' = [dtask EXCEPT ![c] = 0]
    /\ UNCHANGED <<max_concurrent, request_counter, dagent>>

\* select_agent returned Err: `?` leaves dispatch and drops _permit.
NoAgentsExit(c) ==
    /\ semaphore' = semaphore + 1
    /\ dpc' = [dpc EXCEPT ![c] = "returned"]
    /\ dresults' = dresults \cup {"no_agents"}
    /\ dtask' = [dtask EXCEPT ![c] = 0]
    /\ UNCHANGED <<max_concurrent, active_requests, request_counter, dagent>>

\* select_agent found no available agent.
SelectNone(c) ==
    /\ dpc[c] = "select"
    /\ NoAgentsExit(c)

\* What one select_agent call that finds an agent can return, over all
\* availability reports and inputs: the agent chosen and the value it leaves
\* in the shared counter.
SelectOutcomes(count) ==
    {[agent |-> SelectAgent(AvailableAgents(x[1]), x[2].strategy, x[2].provider,
                            count, x[2].health, x[2].rnd),
      count |-> CounterAfter(x[2].strategy, count)] :
        x \in {y \in ((SUBSET Agents) \ {{}}) \X SelectInputs :
                  y[2].rnd <= Cardinality(y[1])}}

\* select_agent chose an agent of the list given by its providers; the
\* request is tracked and forwarded.
SelectSomeFrom(providers, c, choice) ==
    /\ dpc[c] = "select"
    /\ dagent' = [dagent EXCEPT ![c] = choice.agent]
    /\ active_requests' =
          MapPut(active_requests, dtask[c],
                 [agent_provider |-> providers[choice.agent],
                  started_at |-> now, attempt |-> 1])
    /\ request_counter' = choice.count
    /\ dpc' = [dpc EXCEPT ![c] = "submit"]
    /\ UNCHANGED <<max_concurrent, semaphore, dtask, dresults>>

\* select_agent chose one of the agents handed to dispatch.
SelectSome(c, choice) == SelectSomeFrom(AgentProviders, c, choice)

\* agent.submit returned: the entry is removed, the result passed on, and
\* _permit dropped on return.
SubmitReturns(c, ok) ==
    /\ dpc[c] = "submit"
    /\ active_requests' = MapRemove(active_requests, dtask[c])
    /\ semaphore' = semaphore + 1
    /\ dpc' = [dpc EXCEPT ![c] = "returned"]
    /\ dresults' = dresults \cup {IF ok THEN "ok" ELSE "agent_error"}
    /\ dtask' = [dtask EXCEPT ![c] = 0]
    /\ dagent' = [dagent EXCEPT ![c] = 0]
    /\ UNCHANGED <<max_concurrent, request_counter>>

(***************************************************************************)
(* dispatch calls that are all handed the same worker list, whose workers  *)
(* report the same availability at every call.  sel holds the list and the *)
(* reports; lastOp holds the last select_agent call, and with it the       *)
(* selections made before it.                                              *)
(***************************************************************************)
\* The worker list of n workers.
WorkerList(n) ==
    [i \in 1..n |-> IF i % 3 = 1 THEN "OpenAI"
                    ELSE IF i % 3 = 2 THEN "Claude" ELSE "Copilot"]

\* The workers of the list that report available, in list order.
ListAvailable == AvailableAgents(sel.reports)

\* The selections observed so far that chose a worker, oldest first: each
\* with its strategy, the counter value it read and the worker it chose.
EarlierPicks == IF lastOp.op = "select_agent" THEN lastOp.before.picks ELSE <<>>
AllPicks ==
    IF lastOp.op = "select_agent" /\ lastOp.result # 0
        THEN Append(lastOp.before.picks,
                    [strategy |-> lastOp.before.strategy,
                     count |-> lastOp.before.count,
                     agent |-> lastOp.result])
        ELSE EarlierPicks

ObserveSelect(c, strategy, result) ==
    lastOp' = [op |-> "select_agent", result |-> result,
               lenBefore |-> Len(ListAvailable),
               before |-> [call |-> c, strategy |-> strategy,
                           count |-> request_counter, picks |-> AllPicks]]

\* The strategies a call on the list is made with; the rest of what
\* select_agent reads is left at a default.
ListInputs ==
    {x \in SelectInputs : x.strategy \in {"RoundRobin", "CostOptimized"}}

\* dispatch is called with the list.
ListDispatch(c) ==
    /\ DispatchCall(c, 1)
    /\ UNCHANGED lastOp

ListAcquire(c) ==
    /\ Acquire(c)
    /\ UNCHANGED lastOp

\* select_agent on the list when no worker reports available.
ListSelectNone(c, in) ==
    /\ ListAvailable = <<>>
    /\ SelectNone(c)
    /\ ObserveSelect(c, in.strategy, 0)

\* select_agent on the list when some worker reports available.
ListSelectSome(c, in) ==
    /\ ListAvailable # <<>>
    /\ in.rnd <= Len(ListAvailable)
    /\ LET agent == SelectAgent(ListAvailable, in.strategy, in.provider,
                                request_counter, in.health, in.rnd)
       IN /\ SelectSomeFrom(sel.providers, c,
                            [agent |-> agent,
                             count |-> CounterAfter(in.strategy, request_counter)])
          /\ ObserveSelect(c, in.strategy, agent)

ListSubmitReturns(c, ok) ==
    /\ SubmitReturns(c, ok)
    /\ UNCHANGED lastOp

(***************************************************************************)
(* MetaAIOrchestrator                                                      *)
(*                                                                         *)
(* Time is counted in poll intervals: execute_task's polling loop sleeps   *)
(* 100 ms between two looks at the table, and one step of the clock is one *)
(* such sleep.  The timers of the waiting callers fire at their instant;   *)
(* the sleeps of the background tasks (the idle loop, the retry delay) end *)
(* at an instant the model leaves open, and a worker call returns at any   *)
(* instant or never.                                                       *)
(***************************************************************************)
\* MetaAIOrchestrator::new builds its scheduler with PriorityScheduler::new(1000)
OrchQueueSize == 1000
\* the polling loop's sleep, Duration::from_millis(100), in clock steps
PollInterval == 1

TerminalStatuses == {"Completed", "Failed", "Cancelled"}

\* last_error = None
NoError == [attempt |-> 0, kind |-> "none"]
\* Error::Internal("Max retry attempts reached")
MaxRetryError == [attempt |-> 0, kind |-> "max_retry"]
\* execute_task_with_retry has not returned
NoReturn == [ok |-> FALSE, error |-> NoError, in_time |-> FALSE]
\* execute_task has not returned
NoResult == [result |-> "none", elapsed |-> 0]

\* MetaAIOrchestrator::new (the background loop is not started yet)
OrchestratorNew(cfg) ==
    /\ config = cfg
    /\ active_tasks = EmptyMap
    /\ task_semaphore = cfg.max_concurrent_tasks
    /\ lpc = "off"
    /\ ltask = 0
    /\ upc = [t \in TaskIds |-> "none"]
    /\ attempts = [t \in TaskIds |-> 0]
    /\ last_error = [t \in TaskIds |-> NoError]
    /\ ulog = [t \in TaskIds |-> <<>>]
    /\ uret = [t \in TaskIds |-> NoReturn]
    /\ cpc = [t \in TaskIds |-> "idle"]
    /\ cdeadline = [t \in TaskIds |-> 0]
    /\ cresult = [t \in TaskIds |-> NoResult]

\* The tasks execute_task is called for.  (Task ids are interchangeable:
\* the tasks are numbered in the order in which they are submitted.)
Submitted == 1..NumSubmitted

\* The configurations the orchestrator is built with.
Configs ==
    [max_concurrent_tasks : 1..NumSubmitted,
     task_timeout : 0..MaxTime,
     retry_attempts : 0..MaxRetryAttempts]

\* The configuration of an orchestrator that is built and left alone.
IdleConfig == [max_concurrent_tasks |-> 1, task_timeout |-> 0, retry_attempts |-> 0]

\* The execute_task calls that are waiting in the polling loop.
Waiting == {t \in TaskIds : cpc[t] \in {"sleep", "poll"}}

\* ---- start(): the dequeue loop ----
\* start() spawns the loop.
Start ==
    /\ lpc = "off"
    /\ lpc' = "next"
    /\ UNCHANGED <<clockVars, schedVars, orchVars, ltask, unitVars, execVars>>

\* next_task returned Some(task): the task is put in the table as it came
\* out of the scheduler, and the loop goes on to wait for a permit.
LoopNext(id) ==
    /\ lpc = "next"
    /\ id \in DOMAIN queue
    /\ id \in DOMAIN tasks
    /\ NextTaskPop(id)
    /\ active_tasks' = MapPut(active_tasks, id, tasks[id].task.status)
    /\ lpc' = "acquire"
    /\ ltask' = id
    /\ UNCHANGED <<clockVars, max_queue_size, config, task_semaphore,
                   unitVars, execVars>>

\* next_task returned None: the loop sleeps.
LoopIdle ==
    /\ lpc = "next"
    /\ DOMAIN queue = {}
    /\ lpc' = "sleep"
    /\ UNCHANGED <<clockVars, schedVars, orchVars, ltask, unitVars, execVars>>

\* the loop's sleep ends.
LoopWake ==
    /\ lpc = "sleep"
    /\ lpc' = "next"
    /\ UNCHANGED <<clockVars, schedVars, orchVars, ltask, unitVars, execVars>>

LoopAcquireTakesNoPermit ==
    /\ lpc = "acquire"
    /\ upc' = [upc EXCEPT ![ltask] = "loop"]
    /\ attempts' = [attempts EXCEPT ![ltask] = 0]
    /\ last_error' = [last_error EXCEPT ![ltask] = NoError]
    /\ lpc' = "next"
    /\ ltask' = 0
    /\ UNCHANGED <<clockVars, schedVars, config, active_tasks, task_semaphore,
                   ulog, uret, execVars>>

LoopAcquireWaitsForUnits ==
    /\ lpc = "acquire"
    /\ \A t \in TaskIds : upc[t] \in {"none", "done"}
    /\ PermitAvailable(task_semaphore)
    /\ task_semaphore' = task_semaphore - 1
    /\ upc' = [upc EXCEPT ![ltask] = "loop"]
    /\ attempts' = [attempts EXCEPT ![ltask] = 0]
    /\ last_error' = [last_error EXCEPT ![ltask] = NoError]
    /\ lpc' = "next"
    /\ ltask' = 0
    /\ UNCHANGED <<clockVars, schedVars, config, active_tasks, ulog, uret, execVars>>

\* acquire_owned() returns a permit; the loop spawns the execution unit,
\* which starts execute_task_with_retry with attempts = 0, last_error = None.
LoopAcquire ==
    /\ lpc = "acquire"
    /\ PermitAvailable(task_semaphore)
    /\ task_semaphore' = task_semaphore - 1
    /\ upc' = [upc EXCEPT ![ltask] = "loop"]
    /\ attempts' = [attempts EXCEPT ![ltask] = 0]
    /\ last_error' = [last_error EXCEPT ![ltask] = NoError]
    /\ lpc' = "next"
    /\ ltask' = 0
    /\ UNCHANGED <<clockVars, schedVars, config, active_tasks, ulog, uret, execVars>>

\* ---- the execution unit: execute_task_with_retry, then the table update ----
RetryLoopContinuesInclusive(done, n) == done <= n

RetryLoopRunsAtLeastOnce(done, n) == done < n \/ done = 0

\* while attempts < config.retry_attempts
RetryLoopContinues(done, n) == done < n

UnitFinishKeepsPermit(t, ret) ==
    /\ uret' = [uret EXCEPT ![t] =
                  [ret EXCEPT !.in_time = (t \in Waiting /\ now < cdeadline[t])]]
    /\ active_tasks' = MapRemove(active_tasks, t)
    /\ UNCHANGED task_semaphore
    /\ upc' = [upc EXCEPT ![t] = "done"]

\* The unit's end: execute_task_with_retry returned ret.  The unit takes the
\* task's entry out of the table, sets the status on the copy it took out,
\* and drops its permit.
UnitFinish(t, ret) ==
    /\ uret' = [uret EXCEPT ![t] =
                  [ret EXCEPT !.in_time = (t \in Waiting /\ now < cdeadline[t])]]
    /\ active_tasks' = MapRemove(active_tasks, t)
    /\ task_semaphore' = task_semaphore + 1
    /\ upc' = [upc EXCEPT ![t] = "done"]

\* One pass of the loop as far as the selector: attempts += 1, then
\* select_agent, which returns an agent or an error.
UnitAttempt(t, selected) ==
    /\ upc[t] = "loop"
    /\ RetryLoopContinues(attempts[t], config.retry_attempts)
    /\ attempts' = [attempts EXCEPT ![t] = @ + 1]
    /\ IF selected
       THEN /\ upc' = [upc EXCEPT ![t] = "submit"]
            /\ UNCHANGED <<last_error, ulog>>
       ELSE /\ last_error' = [last_error EXCEPT ![t] =
                                [attempt |-> attempts[t] + 1, kind |-> "select"]]
            /\ ulog' = [ulog EXCEPT ![t] = Append(@, "fail")]
            /\ UNCHANGED upc
    /\ UNCHANGED <<clockVars, schedVars, orchVars, loopVars, uret, execVars>>

\* agent.submit returned Ok(response): return Ok(response).
UnitSubmitOk(t) ==
    /\ upc[t] = "submit"
    /\ ulog' = [ulog EXCEPT ![t] = Append(@, "ok")]
    /\ UnitFinish(t, [ok |-> TRUE, error |-> NoError, in_time |-> FALSE])
    /\ UNCHANGED <<clockVars, schedVars, config, loopVars, attempts, last_error,
                   execVars>>

\* agent.submit returned Err(e): it becomes last_error, and the unit sleeps
\* retry_delay if another attempt is to follow.
UnitSubmitErr(t) ==
    /\ upc[t] = "submit"
    /\ last_error' = [last_error EXCEPT ![t] =
                        [attempt |-> attempts[t], kind |-> "submit"]]
    /\ ulog' = [ulog EXCEPT ![t] = Append(@, "fail")]
    /\ upc' = [upc EXCEPT ![t] =
                 IF attempts[t] < config.retry_attempts THEN "delay" ELSE "loop"]
    /\ UNCHANGED <<clockVars, schedVars, orchVars, loopVars, attempts, uret,
                   execVars>>

\* the sleep of retry_delay ends.
UnitDelayDone(t) ==
    /\ upc[t] = "delay"
    /\ upc' = [upc EXCEPT ![t] = "loop"]
    /\ UNCHANGED <<clockVars, schedVars, orchVars, loopVars, attempts, last_error,
                   ulog, uret, execVars>>

\* The loop condition fails:
\* Err(last_error.unwrap_or_else(|| Internal("Max retry attempts reached")))
UnitExhausted(t) ==
    /\ upc[t] = "loop"
    /\ ~RetryLoopContinues(attempts[t], config.retry_attempts)
    /\ UnitFinish(t, [ok |-> FALSE,
                      error |-> IF last_error[t] = NoError THEN MaxRetryError
                                ELSE last_error[t],
                      in_time |-> FALSE])
    /\ UNCHANGED <<clockVars, schedVars, config, loopVars, attempts, last_error,
                   ulog, execVars>>

\* ---- execute_task ----
\* The call returns.
ExecReturn(t, result, elapsed) ==
    /\ cpc' = [cpc EXCEPT ![t] = "returned"]
    /\ cresult' = [cresult EXCEPT ![t] = [result |-> result, elapsed |-> elapsed]]
    /\ cdeadline' = [cdeadline EXCEPT ![t] = 0]

\* execute_task(task): schedule_task, with `?` on its error; then the
\* timeout is armed and the polling loop looks at the table a first time
\* (the task cannot be in it with a terminal status yet) and sleeps.
ExecuteTask(t, p) ==
    /\ cpc[t] = "idle"
    /\ \A u \in Submitted : u < t => cpc[u] # "idle"
    /\ \E ok \in BOOLEAN :
         /\ schedule_task(Task(t, p), ok)
         /\ IF ok
            THEN /\ cpc' = [cpc EXCEPT ![t] = "sleep"]
                 /\ cdeadline' = [cdeadline EXCEPT ![t] = now + config.task_timeout]
                 /\ UNCHANGED cresult
            ELSE ExecReturn(t, "QueueFull", 0)
    /\ UNCHANGED <<clockVars, max_queue_size, orchVars, loopVars, unitVars>>

\* The polling loop looks at the table: a terminal status is returned,
\* anything else (no entry, or a status that is not terminal) sleeps again.
PollTable(t) ==
    /\ cpc[t] = "poll"
    /\ IF t \in DOMAIN active_tasks /\ active_tasks[t] \in TerminalStatuses
       THEN ExecReturn(t, active_tasks[t],
                       now - (cdeadline[t] - config.task_timeout))
       ELSE /\ cpc' = [cpc EXCEPT ![t] = "sleep"]
            /\ UNCHANGED <<cdeadline, cresult>>
    /\ UNCHANGED <<clockVars, schedVars, orchVars, loopVars, unitVars>>

TimeoutNeverElapses(time, deadline) == FALSE

\* tokio::time::timeout: the deadline has been reached.
TimeoutElapsed(time, deadline) == time >= deadline

\* The timeout fires while the polling loop sleeps: Err(Error::Timeout).
TimedOut(t) ==
    /\ cpc[t] = "sleep"
    /\ TimeoutElapsed(now, cdeadline[t])
    /\ ExecReturn(t, "Timeout", now - (cdeadline[t] - config.task_timeout))
    /\ UNCHANGED <<clockVars, schedVars, orchVars, loopVars, unitVars>>

CancelTaskCancelsAll(id) ==
    /\ Waiting = {}
    /\ active_tasks' = IF id \in DOMAIN active_tasks
                       THEN [x \in DOMAIN active_tasks |-> "Cancelled"]
                       ELSE active_tasks
    /\ UNCHANGED <<clockVars, schedVars, config, task_semaphore, loopVars,
                   unitVars, execVars>>

CancelTaskAbortsUnit(id) ==
    /\ Waiting = {}
    /\ active_tasks' = IF id \in DOMAIN active_tasks
                       THEN [active_tasks EXCEPT ![id] = "Cancelled"]
                       ELSE active_tasks
    /\ task_semaphore' = IF upc[id] \in {"loop", "submit", "delay"}
                         THEN task_semaphore + 1 ELSE task_semaphore
    /\ upc' = [upc EXCEPT ![id] = IF @ \in {"loop", "submit", "delay"}
                                  THEN "done" ELSE @]
    /\ UNCHANGED <<clockVars, schedVars, config, loopVars, attempts, last_error,
                   ulog, uret, execVars>>

\* cancel_task(id).  It takes the orchestrator by exclusive reference and
\* execute_task borrows it for as long as it waits, so cancel_task runs only
\* while no execute_task call is waiting.
CancelTask(id) ==
    /\ Waiting = {}
    /\ active_tasks' = IF id \in DOMAIN active_tasks
                       THEN [active_tasks EXCEPT ![id] = "Cancelled"]
                       ELSE active_tasks
    /\ UNCHANGED <<clockVars, schedVars, config, task_semaphore, loopVars,
                   unitVars, execVars>>

\* The error of get_task_status and cancel_task for an id without entry:
\* Error::Internal("Task {id} not found").
TaskNotFound == "Internal: task not found"

\* get_task_status: the status stored in the entry, or the error.
get_task_status(table, id) ==
    IF id \in DOMAIN table THEN table[id] ELSE TaskNotFound

\* What cancel_task returns: Ok(()), or the error when the id has no entry.
cancel_task_result(table, id) ==
    IF id \in DOMAIN table THEN "ok" ELSE TaskNotFound

\* ---- the calls on the active-task table, with what they return ----
\* What a call on the table is observed with: the call, its result, and the
\* id and the table it was called with.
ObserveTable(op, id, result) ==
    lastOp' = [op |-> op, result |-> result,
               lenBefore |-> Cardinality(DOMAIN active_tasks),
               before |-> [id |-> id, active_tasks |-> active_tasks]]

\* active_tasks.insert(task.id, task.clone()) in the dequeue loop: the task
\* has the status it was scheduled with.
TableInsert(id) ==
    /\ active_tasks' = MapPut(active_tasks, id, Task(id, Low).status)
    /\ ObserveTable("insert", id, "ok")
    /\ UNCHANGED <<clockVars, schedVars, config, task_semaphore, loopVars,
                   unitVars, execVars>>

\* active_tasks.remove(&task_id) at the end of an execution unit.
TableRemove(id) ==
    /\ id \in DOMAIN active_tasks
    /\ active_tasks' = MapRemove(active_tasks, id)
    /\ ObserveTable("remove", id, "ok")
    /\ UNCHANGED <<clockVars, schedVars, config, task_semaphore, loopVars,
                   unitVars, execVars>>

\* A cancel_task call and its result.
CancelTaskCall(id) ==
    /\ CancelTask(id)
    /\ ObserveTable("cancel_task", id, cancel_task_result(active_tasks, id))

\* A get_task_status call and its result.
GetTaskStatusCall(id) ==
    /\ ObserveTable("get_task_status", id, get_task_status(active_tasks, id))
    /\ UNCHANGED <<clockVars, schedVars, orchAll>>

\* One poll interval passes: the sleeping pollers wake.  The callers' timers
\* fire at their instant, so time does not pass while a poller is awake or a
\* timeout is due.
OrchTick ==
    /\ now < MaxTime
    /\ \A t \in TaskIds :
         /\ cpc[t] # "poll"
         /\ ~(cpc[t] = "sleep" /\ TimeoutElapsed(now, cdeadline[t]))
    /\ now' = now + PollInterval
    /\ wall' = wall + PollInterval
    /\ cpc' = [t \in TaskIds |-> IF cpc[t] = "sleep" THEN "poll" ELSE cpc[t]]
    /\ UNCHANGED <<schedVars, orchVars, loopVars, unitVars, cdeadline, cresult>>

(***************************************************************************)
(* DagExecutorImpl: validate_dag                                           *)
(***************************************************************************)
NodeIds == 1..NumNodes
Usize == 0..MaxUsize

\* A TaskDag: its node ids and its edges <<from, to>>.
EmptyDag == [nodes |-> {}, edges |-> {}]
Dags ==
    {[nodes |-> 1..n, edges |-> e] :
        n \in 0..NumNodes,
        e \in {x \in SUBSET (NodeIds \X NodeIds) : Cardinality(x) <= MaxEdges}}

\* build_graph: a graph node per dag node; an edge is added only if both its
\* ends are nodes.
build_graph(d) ==
    [nodes |-> d.nodes,
     edges |-> {e \in d.edges : e[1] \in d.nodes /\ e[2] \in d.nodes}]

Outgoing(g, n) == {e[2] : e \in {x \in g.edges : x[1] = n}}

\* The nodes without incoming edges.
Roots(g) == {n \in g.nodes : ~\E e \in g.edges : e[2] = n}

\* The nodes that can be reached from the nodes of S, those included.
RECURSIVE ReachableFrom(_, _)
ReachableFrom(g, S) ==
    LET next == S \cup UNION {Outgoing(g, n) : n \in S}
    IN IF next = S THEN S ELSE ReachableFrom(g, next)

\* petgraph::algo::is_cyclic_directed: some edge closes a directed walk.
is_cyclic_directed(g) ==
    \E e \in g.edges : e[1] \in ReachableFrom(g, {e[2]})

FindUnreachableFromOneRoot(g) ==
    g.nodes \ ReachableFrom(g, {n \in Roots(g) : \A m \in Roots(g) : n <= m})

\* find_unreachable_nodes: the nodes a traversal from the roots does not visit.
find_unreachable_nodes(g) == g.nodes \ ReachableFrom(g, Roots(g))

\* The sequences that list the elements of S once each: the orders in which
\* a HashMap or an adjacency list can hand out S.
RECURSIVE Orders(_)
Orders(S) ==
    IF S = {} THEN {<<>>}
    ELSE UNION {{<<x>> \o o : o \in Orders(S \ {x})} : x \in S}

NoReport == [valid |-> FALSE, has_cycles |-> FALSE, unreachable_nodes |-> {},
             max_depth |-> 0]

\* DagExecutorImpl::with_max_depth, in a build with or without overflow checks
DagExecutorNew(limit, checks) ==
    /\ self_max_depth = limit
    /\ overflow_checks = checks

\* validate_dag has not been called; d is the dag it will be called with.
NoValidation(d) ==
    /\ dag = d
    /\ vpc = "idle"
    /\ bfs_queue = <<>>
    /\ depths = EmptyMap
    /\ max_depth = 0
    /\ validation = NoReport

\* validate_dag as far as the start of calculate_depth's loop: the graph is
\* built, has_cycles and unreachable_nodes are computed, and the roots are
\* queued with depth 0.
ValidateDag ==
    /\ vpc = "idle"
    /\ LET g == build_graph(dag)
       IN /\ validation' = [NoReport EXCEPT
                              !.has_cycles = is_cyclic_directed(g),
                              !.unreachable_nodes = find_unreachable_nodes(g)]
          /\ \E roots \in Orders(Roots(g)) :
               bfs_queue' = [i \in 1..Len(roots) |-> <<roots[i], 0>>]
          /\ depths' = [n \in Roots(g) |-> 0]
    /\ max_depth' = 0
    /\ vpc' = "depth"
    /\ UNCHANGED <<self_max_depth, overflow_checks, dag>>

MaxOf(a, b) == IF a >= b THEN a ELSE b

NeverDeeper(known, new_depth) == FALSE

\* depths[&target] < new_depth
Deeper(known, new_depth) == known < new_depth

\* One pass of `while let Some((node, depth)) = queue.pop_front()` whose
\* depth + 1 does not overflow, or wraps: every target that is new or deeper
\* now gets the new depth and is queued.
DepthStep ==
    /\ vpc = "depth"
    /\ bfs_queue # <<>>
    /\ LET g == build_graph(dag)
           node == Head(bfs_queue)[1]
           depth == Head(bfs_queue)[2]
           new_depth == (depth + 1) % (MaxUsize + 1)
           pushed == {t \in Outgoing(g, node) :
                        t \notin DOMAIN depths \/ Deeper(depths[t], new_depth)}
       IN /\ Outgoing(g, node) # {} => (depth < MaxUsize \/ ~overflow_checks)
          /\ max_depth' = MaxOf(max_depth, depth)
          /\ depths' = [n \in DOMAIN depths \cup pushed |->
                          IF n \in pushed THEN new_depth ELSE depths[n]]
          /\ \E order \in Orders(pushed) :
               bfs_queue' = Tail(bfs_queue)
                              \o [i \in 1..Len(order) |-> <<order[i], new_depth>>]
    /\ UNCHANGED <<self_max_depth, overflow_checks, dag, vpc, validation>>

\* depth + 1 overflows in a build with overflow checks: the call panics.
DepthOverflowPanics ==
    /\ vpc = "depth"
    /\ bfs_queue # <<>>
    /\ overflow_checks
    /\ Head(bfs_queue)[2] = MaxUsize
    /\ Outgoing(build_graph(dag), Head(bfs_queue)[1]) # {}
    /\ vpc' = "panicked"
    /\ UNCHANGED <<self_max_depth, overflow_checks, dag, bfs_queue, depths,
                   max_depth, validation>>

DepthReturnIgnoresBound ==
    /\ vpc = "depth"
    /\ bfs_queue = <<>>
    /\ validation' = [validation EXCEPT
                        !.max_depth = max_depth,
                        !.valid = /\ ~validation.has_cycles
                                  /\ validation.unreachable_nodes = {}]
    /\ vpc' = "returned"
    /\ UNCHANGED <<self_max_depth, overflow_checks, dag, bfs_queue, depths,
                   max_depth>>

\* The queue is empty: calculate_depth returns max_depth and validate_dag
\* returns the report.
DepthReturn ==
    /\ vpc = "depth"
    /\ bfs_queue = <<>>
    /\ validation' = [validation EXCEPT
                        !.max_depth = max_depth,
                        !.valid = /\ ~validation.has_cycles
                                  /\ validation.unreachable_nodes = {}
                                  /\ max_depth <= self_max_depth]
    /\ vpc' = "returned"
    /\ UNCHANGED <<self_max_depth, overflow_checks, dag, bfs_queue, depths,
                   max_depth>>

(***************************************************************************)
(* DagExecutorImpl: topological_sort                                       *)
(***************************************************************************)
IncomingIgnored(g, n) == {}

\* The predecessors of node n.
Incoming(g, n) == {e[1] : e \in {x \in g.edges : x[2] = n}}

\* petgraph::visit::Topo, started on the nodes without incoming edges: next()
\* pops a node, skips it if it is ordered already, marks it ordered, pushes
\* each of its successors whose predecessors are all ordered, and yields it.
\* The value is the set of sequences the walk can yield from this point,
\* over the orders in which the successors can be handed out.
RECURSIVE TopoWalks(_, _, _, _)
TopoWalks(g, tovisit, ordered, yielded) ==
    IF tovisit = <<>> THEN {yielded}
    ELSE LET nix == tovisit[Len(tovisit)]
             rest == SubSeq(tovisit, 1, Len(tovisit) - 1)
         IN IF nix \in ordered
            THEN TopoWalks(g, rest, ordered, yielded)
            ELSE LET done == ordered \cup {nix}
                     ready == {m \in Outgoing(g, nix) : Incoming(g, m) \subseteq done}
                 IN UNION {TopoWalks(g, rest \o o, done, Append(yielded, nix)) :
                              o \in Orders(ready)}

TopoNew(g) == UNION {TopoWalks(g, s, {}, <<>>) : s \in Orders(Roots(g))}

TopologicalSortIgnoresCycles(d) ==
    {[called |-> TRUE, ok |-> TRUE, order |-> o] : o \in TopoNew(build_graph(d))}

\* topological_sort: what the call can return.
topological_sort(d) ==
    LET g == build_graph(d)
    IN IF is_cyclic_directed(g)
       THEN {[called |-> TRUE, ok |-> FALSE, order |-> <<>>]}
       ELSE {[called |-> TRUE, ok |-> TRUE, order |-> o] : o \in TopoNew(g)}

NoTopologicalSort ==
    topo_result = [called |-> FALSE, ok |-> FALSE, order |-> <<>>]

\* One topological_sort call on dag.
TopologicalSort ==
    /\ ~topo_result.called
    /\ topo_result' \in topological_sort(dag)
    /\ UNCHANGED dagVars

(***************************************************************************)
(* The dequeue loop fed with several tasks                                 *)
(***************************************************************************)
\* The tasks that were handed to execute_task so far.
Handed == {t \in TaskIds : t \in DOMAIN queue \/ t \in DOMAIN active_tasks
                             \/ upc[t] # "none"}

\* execute_task puts the task into the scheduler.  What the caller does
\* afterwards is left out here: it only reads the table.  (Task ids are
\* unique and interchangeable: the tasks are numbered in submission order.)
SubmitTask(id, p) ==
    /\ id \notin Handed
    /\ \A u \in TaskIds : u < id => u \in Handed
    /\ schedule_task(Task(id, p), TRUE)
    /\ UNCHANGED <<clockVars, max_queue_size, orchAll>>

\* The configurations the orchestrator is built with when several tasks are
\* fed to the loop.
FeedConfigs ==
    [max_concurrent_tasks : 1..MaxConcurrent,
     task_timeout : {0},
     retry_attempts : 0..MaxRetryAttempts]

(***************************************************************************)
(* select_agent called on its own, with the inputs kept for inspection     *)
(***************************************************************************)
\* The candidate lists: each agent of the list given by its provider.
CandidateLists == UNION {[1..n -> RequestProviders] : n \in 0..MaxAgents}

\* DefaultAgentSelector::select_agent on a non-empty available list.
DefaultSelectAgent(providers, available, strategy, wanted) ==
    CASE strategy = "RoundRobin" -> available[1]
      [] strategy = "BestMatch" -> BestMatch(providers, available, wanted)
      [] OTHER -> available[1]

NoSelect ==
    sel = [who |-> "none", providers |-> <<>>, reports |-> {},
           strategy |-> "RoundRobin", wanted |-> "OpenAI", result |-> 0]

\* TaskDispatcher::select_agent with the BestMatch strategy: reports is the
\* set of agents whose is_available returned true; result 0 is the error
\* "No available agents".
DispatcherSelectBestMatch ==
    /\ sel.who = "none"
    /\ \E providers \in CandidateLists, wanted \in RequestProviders :
         \E reports \in SUBSET DOMAIN providers :
            sel' = [who |-> "TaskDispatcher", providers |-> providers,
                    reports |-> reports, strategy |-> "BestMatch",
                    wanted |-> wanted,
                    result |-> IF reports = {} THEN 0
                               ELSE BestMatch(providers, AvailableAgents(reports),
                                              wanted)]

\* DefaultAgentSelector::select_agent, for every strategy it was built with.
DefaultSelectorSelect ==
    /\ sel.who = "none"
    /\ \E providers \in CandidateLists, wanted \in RequestProviders,
          strategy \in SelectionStrategies :
         \E reports \in SUBSET DOMAIN providers :
            sel' = [who |-> "DefaultAgentSelector", providers |-> providers,
                    reports |-> reports, strategy |-> strategy,
                    wanted |-> wanted,
                    result |-> IF reports = {} THEN 0
                               ELSE DefaultSelectAgent(providers,
                                       AvailableAgents(reports), strategy, wanted)]

(***************************************************************************)
(* DagExecutorImpl: execute_dag                                            *)
(***************************************************************************)
NodeStatuses == {"Pending", "Completed", "Failed"}

\* The dependency lists that mirror the edges: a node lists the source of
\* every edge that points to it.
MirroredDependencies(nodes, edges) ==
    [m \in nodes |-> {e[1] : e \in {x \in edges : x[2] = m}}]

\* The statuses the nodes carry when the graph is handed over: Pending,
\* except for at most MaxPreMarked nodes the caller marked beforehand.
InputStatuses(nodes) ==
    {st \in [nodes -> NodeStatuses] :
        Cardinality({n \in nodes : st[n] # "Pending"}) <= MaxPreMarked}

\* The TaskDags of n nodes execute_dag is called with: the edges join nodes
\* of the graph, and every DagNode carries a status and the dependency list
\* that mirrors the edges.
ExecDags(n) ==
    UNION {{[nodes |-> 1..n, edges |-> e, status |-> st,
             dependencies |-> MirroredDependencies(1..n, e)] :
               st \in InputStatuses(1..n)} :
           e \in {x \in SUBSET ((1..n) \X (1..n)) : Cardinality(x) < MaxEdges}}

DepsSatisfiedAlways(d, n) == TRUE

\* deps_satisfied: every dependency id has a node, and the status that node
\* carries in the dag is Completed.
DepsSatisfied(d, n) ==
    \A dep \in d.dependencies[n] :
       dep \in d.nodes /\ d.status[dep] = "Completed"

RunInOrderDropsSkipped(d, order) ==
    [ok |-> TRUE,
     error |-> "none",
     completed_tasks |-> SelectSeq(order, LAMBDA n : DepsSatisfied(d, n)),
     failed_tasks |-> <<>>,
     skipped_tasks |-> <<>>]

\* The loop over the topological order: a task whose dependencies are
\* satisfied is executed (the simulated execution succeeds) and pushed to
\* completed_tasks, any other is pushed to skipped_tasks.
RunInOrder(d, order) ==
    [ok |-> TRUE,
     error |-> "none",
     completed_tasks |-> SelectSeq(order, LAMBDA n : DepsSatisfied(d, n)),
     failed_tasks |-> <<>>,
     skipped_tasks |-> SelectSeq(order, LAMBDA n : ~DepsSatisfied(d, n))]

\* Err(Error::Validation(..)): nothing was executed.
ValidationError ==
    [ok |-> FALSE, error |-> "Validation", completed_tasks |-> <<>>,
     failed_tasks |-> <<>>, skipped_tasks |-> <<>>]

NoExecuteDag ==
    /\ epc = "idle"
    /\ exec_result = [ok |-> FALSE, error |-> "none", completed_tasks |-> <<>>,
                      failed_tasks |-> <<>>, skipped_tasks |-> <<>>]

\* execute_dag is called and calls validate_dag.
ExecuteDag ==
    /\ epc = "idle"
    /\ epc' = "validating"
    /\ ValidateDag
    /\ UNCHANGED exec_result

\* validate_dag returned a report that is not valid.
ExecuteInvalid ==
    /\ epc = "validating"
    /\ vpc = "returned"
    /\ ~validation.valid
    /\ exec_result' = ValidationError
    /\ epc' = "returned"
    /\ UNCHANGED dagVars

\* validate_dag returned a valid report: topological_sort, with `?` on its
\* error, then the loop over the order.
ExecuteValid ==
    /\ epc = "validating"
    /\ vpc = "returned"
    /\ validation.valid
    /\ \E sorted \in topological_sort(dag) :
         exec_result' = IF sorted.ok THEN RunInOrder(dag, sorted.order)
                        ELSE ValidationError
    /\ epc' = "returned"
    /\ UNCHANGED dagVars

----------------------------------------------------------------------------
(***************************************************************************)
(* The scheduler driven directly through its trait (SchedSpec).            *)
(***************************************************************************)
InsertionCount == stats.total_scheduled + stats.total_requeued

Schedule(id, p) ==
    /\ \E ok \in BOOLEAN :
         /\ schedule_task(Task(id, p), ok)
         /\ ok => InsertionCount < MaxInsertions
         /\ Observe("schedule", IF ok THEN "ok" ELSE "queue_full")
         /\ IF ok
            THEN /\ schedOrder' = MapPut(schedOrder, id, InsertionCount + 1)
                 /\ returned' = <<>>
            ELSE UNCHANGED <<schedOrder, returned>>
    /\ UNCHANGED <<clockVars, max_queue_size>>

NextSome(id) ==
    /\ id \in DOMAIN queue
    /\ id \in DOMAIN tasks
    /\ NextTaskPop(id)
    /\ Observe("next", "some")
    /\ returned' = LastN(Append(returned, [priority |-> tasks[id].task.priority,
                                           order |-> schedOrder[id]]), 2)
    /\ schedOrder' = MapRemove(schedOrder, id)
    /\ UNCHANGED <<clockVars, max_queue_size>>

NextNone ==
    /\ DOMAIN queue = {}
    /\ Observe("next", "none")
    /\ UNCHANGED <<clockVars, schedVars, schedOrder, returned>>

Requeue(id, p) ==
    /\ InsertionCount < MaxInsertions
    /\ requeue_task(Task(id, p))
    /\ Observe("requeue", "ok")
    /\ schedOrder' = MapPut(schedOrder, id, InsertionCount + 1)
    /\ returned' = <<>>
    /\ UNCHANGED <<clockVars, max_queue_size>>

\* Time passes: both clocks advance.
Tick ==
    /\ now < MaxTime
    /\ now' = now + 1
    /\ wall' = wall + 1
    /\ UNCHANGED <<schedVars, schedObs, dispVars, callVars, orchAll, dagAll, selVars>>

ClockInit ==
    /\ now = 0
    /\ wall = 0

\* PriorityScheduler::new
SchedulerNew(capacity) ==
    /\ max_queue_size = capacity
    /\ queue = EmptyMap
    /\ tasks = EmptyMap
    /\ stats = [total_scheduled |-> 0, total_requeued |-> 0,
                cumulative_wait_time |-> 0]
    /\ lastOp = [op |-> "none", result |-> "none", lenBefore |-> 0, before |-> <<>>]
    /\ afterFull = 0
    /\ schedOrder = EmptyMap
    /\ returned = <<>>

SchedInit ==
    /\ ClockInit
    /\ \E capacity \in 1..NumTasks : SchedulerNew(capacity)
    /\ DispatcherNew(1)
    /\ NoCalls
    /\ OrchestratorNew(IdleConfig)
    /\ DagExecutorNew(1, TRUE)
    /\ NoValidation(EmptyDag)
    /\ NoTopologicalSort
    /\ NoExecuteDag
    /\ NoSelect

SchedNext ==
    \/ \E id \in TaskIds, p \in Priorities :
         Schedule(id, p) /\ UNCHANGED <<dispVars, callVars, orchAll, dagAll, selVars>>
    \/ \E id \in TaskIds : NextSome(id) /\ UNCHANGED <<dispVars, callVars, orchAll, dagAll, selVars>>
    \/ NextNone /\ UNCHANGED <<dispVars, callVars, orchAll, dagAll, selVars>>
    \/ \E id \in TaskIds, p \in Priorities :
         Requeue(id, p) /\ UNCHANGED <<dispVars, callVars, orchAll, dagAll, selVars>>
    \/ Tick

SchedSpec == SchedInit /\ [][SchedNext]_vars

(***************************************************************************)
(* The scheduler's calls observed with the id they were called with        *)
(***************************************************************************)
\* What a scheduler call is observed with: the call, its result, the number
\* of queue entries before it, and the id it concerns with that id's state,
\* the counters and the two clocks before the call.
ObserveQueue(op, id, result) ==
    lastOp' = [op |-> op, result |-> result,
               lenBefore |-> Cardinality(DOMAIN queue),
               before |-> [id |-> id,
                           queued |-> id \in DOMAIN queue,
                           tracked |-> id \in DOMAIN tasks,
                           stats |-> stats,
                           now |-> now,
                           wall |-> wall]]

\* schedule_task(task) and its result.
ScheduleCall(id, p) ==
    /\ \E ok \in BOOLEAN :
         /\ schedule_task(Task(id, p), ok)
         /\ ok => InsertionCount < MaxInsertions
         /\ ObserveQueue("schedule", id, IF ok THEN "ok" ELSE "queue_full")
    /\ UNCHANGED <<clockVars, max_queue_size>>

\* next_task() returning Some(task): id is the task returned.
NextCall(id) ==
    /\ id \in DOMAIN queue
    /\ id \in DOMAIN tasks
    /\ NextTaskPop(id)
    /\ ObserveQueue("next", id, "some")
    /\ UNCHANGED <<clockVars, max_queue_size>>

\* requeue_task(task) and its result: it has no failing path.
RequeueCall(id, p) ==
    /\ InsertionCount < MaxInsertions
    /\ requeue_task(Task(id, p))
    /\ ObserveQueue("requeue", id, "ok")
    /\ UNCHANGED <<clockVars, max_queue_size>>

(***************************************************************************)
(* Properties of the scheduler.                                            *)
(***************************************************************************)
\* C1: after any successful schedule calls, repeated next() calls with no
\* insertion in between return tasks in non-increasing priority order,
\* whatever the insertion order: of two tasks returned one after the other,
\* the first has a priority at least that of the second.
C1_NextReturnsNonIncreasingPriority ==
    Len(returned) = 2 => returned[1].priority >= returned[2].priority

\* next() returned a task of higher priority before one inserted earlier.
C1_Witness ==
    /\ Len(returned) = 2
    /\ returned[1].priority > returned[2].priority
    /\ returned[1].order > returned[2].order

\* C2: among equal-priority tasks, next() returns them in the order in which
\* they were scheduled, also when two schedule calls read the same clock
\* value.
C2_EqualPriorityFifo ==
    (Len(returned) = 2 /\ returned[1].priority = returned[2].priority)
        => returned[1].order < returned[2].order

\* The schedule call that would follow in this state returns Ok.
ScheduleWouldSucceed ==
    ~QueueIsFull(Cardinality(DOMAIN queue), max_queue_size)

\* C3: schedule fails with queue-full iff the queue holds at least
\* max_queue_size entries at the call; after a queue-full failure, one
\* successful next() makes the immediately following schedule succeed.
C3_QueueFullIffAtCapacity ==
    /\ lastOp.op = "schedule" =>
         (lastOp.result = "queue_full" <=> lastOp.lenBefore >= max_queue_size)
    /\ afterFull = 2 => ScheduleWouldSucceed

\* C4: a schedule call that failed with queue-full left the queue, the
\* tracked-task map and every statistics counter as they were before it.
C4_FailedScheduleHasNoEffect ==
    lastOp.result = "queue_full" => Snapshot = lastOp.before

\* A schedule call failed on a queue that holds a task and has counted one.
C4_Witness ==
    /\ lastOp.op = "schedule"
    /\ lastOp.result = "queue_full"
    /\ DOMAIN queue # {}
    /\ stats.total_scheduled > 0

----------------------------------------------------------------------------
(***************************************************************************)
(* Concurrent dispatch calls on one dispatcher (DispSpec).                 *)
(***************************************************************************)
DispInit ==
    /\ ClockInit
    /\ SchedulerNew(1)
    /\ \E capacity \in 1..MaxConcurrent : DispatcherNew(capacity)
    /\ NoCalls
    /\ OrchestratorNew(IdleConfig)
    /\ DagExecutorNew(1, TRUE)
    /\ NoValidation(EmptyDag)
    /\ NoTopologicalSort
    /\ NoExecuteDag
    /\ NoSelect

DispNext ==
    \/ \E c \in Calls, t \in TaskIds :
         DispatchCall(c, t) /\ UNCHANGED <<clockVars, schedVars, schedObs, orchAll, dagAll, selVars>>
    \/ \E c \in Calls : Acquire(c) /\ UNCHANGED <<clockVars, schedVars, schedObs, orchAll, dagAll, selVars>>
    \/ \E c \in Calls : SelectNone(c) /\ UNCHANGED <<clockVars, schedVars, schedObs, orchAll, dagAll, selVars>>
    \/ \E c \in Calls :
         /\ dpc[c] = "select"
         /\ \E choice \in SelectOutcomes(request_counter) : SelectSome(c, choice)
         /\ UNCHANGED <<clockVars, schedVars, schedObs, orchAll, dagAll, selVars>>
    \/ \E c \in Calls, ok \in BOOLEAN :
         SubmitReturns(c, ok) /\ UNCHANGED <<clockVars, schedVars, schedObs, orchAll, dagAll, selVars>>

DispSpec == DispInit /\ [][DispNext]_vars

(***************************************************************************)
(* Properties of the dispatcher.                                           *)
(***************************************************************************)
\* The calls that hold a permit: past acquire and not yet returned.
PermitHolders == {c \in Calls : dpc[c] \in {"select", "submit"}}

\* C5: with capacity N, under any interleaving of concurrent dispatch calls,
\* at most N calls hold a permit and at most N tracking entries exist, and a
\* call leaves its wait at the gate (to select and submit) only in a step
\* that starts with fewer than N permits held.
C5_AtMostCapacityInFlight ==
    /\ [](/\ Cardinality(PermitHolders) <= max_concurrent
          /\ DispatchStats.active_requests <= max_concurrent)
    /\ [][\A c \in Calls :
            (dpc[c] = "acquire" /\ dpc'[c] # "acquire")
               => Cardinality(PermitHolders) < max_concurrent]_vars

\* Every permit is held, every holder is tracked, and one more call waits.
C5_Witness ==
    /\ max_concurrent = 2
    /\ Cardinality(PermitHolders) = max_concurrent
    /\ DispatchStats.active_requests = max_concurrent
    /\ \E c \in Calls : dpc[c] = "acquire"

\* C6: every dispatch call gives its permit back on every exit path, so the
\* available capacity is the total capacity less the calls still inside,
\* and equals the total capacity once all calls have returned.
C6_PermitReleasedOnEveryExit ==
    /\ DispatchStats.available_capacity
         = DispatchStats.total_capacity - Cardinality(PermitHolders)
    /\ (\A c \in Calls : dpc[c] = "returned")
         => DispatchStats.available_capacity = DispatchStats.total_capacity

\* All calls have returned, one on each exit path.
C6_Witness ==
    /\ \A c \in Calls : dpc[c] = "returned"
    /\ dresults = {"ok", "agent_error", "no_agents"}
    /\ DispatchStats.available_capacity = DispatchStats.total_capacity

\* The requests forwarded to a worker and not yet resolved.
InFlight == {c \in Calls : dpc[c] = "submit"}

\* C29: at every instant there is one tracking entry for each request that
\* has been forwarded to a worker and has not resolved, also when several
\* such requests carry the same task id, and no entry is left once every
\* dispatch call has returned.
C29_OneEntryPerInFlightRequest ==
    /\ DispatchStats.active_requests = Cardinality(InFlight)
    /\ \A c \in InFlight : dtask[c] \in DOMAIN active_requests
    /\ (\A c \in Calls : dpc[c] = "returned") => active_requests = EmptyMap

----------------------------------------------------------------------------
(***************************************************************************)
(* The orchestrator: execute_task callers, the dequeue loop, the execution *)
(* units and cancel_task (OrchSpec).                                       *)
(***************************************************************************)
OrchInit ==
    /\ ClockInit
    /\ SchedulerNew(OrchQueueSize)
    /\ \E cfg \in Configs :
         /\ OrchestratorNew(cfg)
         /\ DispatcherNew(cfg.max_concurrent_tasks)
    /\ NoCalls
    /\ DagExecutorNew(1, TRUE)
    /\ NoValidation(EmptyDag)
    /\ NoTopologicalSort
    /\ NoExecuteDag
    /\ NoSelect

OrchNext ==
    \/ Start /\ UNCHANGED <<schedObs, dispVars, callVars, dagAll, selVars>>
    \/ \E id \in TaskIds : LoopNext(id) /\ UNCHANGED <<schedObs, dispVars, callVars, dagAll, selVars>>
    \/ LoopIdle /\ UNCHANGED <<schedObs, dispVars, callVars, dagAll, selVars>>
    \/ LoopWake /\ UNCHANGED <<schedObs, dispVars, callVars, dagAll, selVars>>
    \/ LoopAcquire /\ UNCHANGED <<schedObs, dispVars, callVars, dagAll, selVars>>
    \/ \E t \in TaskIds, selected \in BOOLEAN :
         UnitAttempt(t, selected) /\ UNCHANGED <<schedObs, dispVars, callVars, dagAll, selVars>>
    \/ \E t \in TaskIds : UnitSubmitOk(t) /\ UNCHANGED <<schedObs, dispVars, callVars, dagAll, selVars>>
    \/ \E t \in TaskIds : UnitSubmitErr(t) /\ UNCHANGED <<schedObs, dispVars, callVars, dagAll, selVars>>
    \/ \E t \in TaskIds : UnitDelayDone(t) /\ UNCHANGED <<schedObs, dispVars, callVars, dagAll, selVars>>
    \/ \E t \in TaskIds : UnitExhausted(t) /\ UNCHANGED <<schedObs, dispVars, callVars, dagAll, selVars>>
    \/ \E t \in Submitted, p \in {Low, High} :
         ExecuteTask(t, p) /\ UNCHANGED <<schedObs, dispVars, callVars, dagAll, selVars>>
    \/ \E t \in TaskIds : PollTable(t) /\ UNCHANGED <<schedObs, dispVars, callVars, dagAll, selVars>>
    \/ \E t \in TaskIds : TimedOut(t) /\ UNCHANGED <<schedObs, dispVars, callVars, dagAll, selVars>>
    \/ \E id \in TaskIds : CancelTask(id) /\ UNCHANGED <<schedObs, dispVars, callVars, dagAll, selVars>>
    \/ OrchTick /\ UNCHANGED <<schedObs, dispVars, callVars, dagAll, selVars>>

OrchSpec == OrchInit /\ [][OrchNext]_vars

(***************************************************************************)
(* Properties of the orchestrator.                                         *)
(***************************************************************************)
\* C7: with retry_attempts = n >= 1, execute_task_with_retry makes at most n
\* attempts; when it has returned, either the last attempt made is the only
\* one that succeeded and the success is what it returned, or all n attempts
\* failed, exactly n were made and it returned the error of the n-th.
C7_RetryMakesAtMostNAttempts ==
    \A t \in TaskIds :
      config.retry_attempts >= 1 =>
        /\ attempts[t] <= config.retry_attempts
        /\ Len(ulog[t]) <= attempts[t]
        /\ upc[t] = "done" =>
              LET made == Len(ulog[t])
                  succeeded == {k \in 1..made : ulog[t][k] = "ok"}
              IN /\ attempts[t] = made
                 /\ IF succeeded # {}
                    THEN /\ uret[t].ok
                         /\ succeeded = {made}
                    ELSE /\ ~uret[t].ok
                         /\ made = config.retry_attempts
                         /\ uret[t].error.attempt = config.retry_attempts

\* A unit returned the success of its last allowed attempt after the
\* attempts before it had failed.
C7_Witness ==
    \E t \in TaskIds :
      /\ upc[t] = "done"
      /\ config.retry_attempts >= 2
      /\ Len(ulog[t]) = config.retry_attempts
      /\ ulog[t][1] = "fail"
      /\ ulog[t][Len(ulog[t])] = "ok"
      /\ uret[t].ok

\* C8: an execute_task call whose task reached its outcome in the background
\* before the call's timeout elapsed has returned that outcome as a terminal
\* status: Completed when an attempt succeeded, Failed when the retries
\* were exhausted.
C8_OutcomeBeforeTimeoutIsReturned ==
    \A t \in TaskIds :
      (cpc[t] = "returned" /\ upc[t] = "done" /\ uret[t].in_time)
         => cresult[t].result = IF uret[t].ok THEN "Completed" ELSE "Failed"

\* C9: an execute_task call waits no longer than task_timeout after the task
\* was scheduled, and a call that has returned while its task's worker has
\* not responded has returned a Timeout error, no later than task_timeout
\* plus one poll interval after the task was scheduled.
C9_TimeoutWithinBound ==
    \A t \in TaskIds :
      /\ t \in Waiting => now <= cdeadline[t]
      /\ (cpc[t] = "returned" /\ cresult[t].result # "QueueFull" /\ upc[t] # "done")
            => /\ cresult[t].result = "Timeout"
               /\ cresult[t].elapsed <= config.task_timeout + PollInterval

\* A call has timed out while its task's worker call is still outstanding.
C9_Witness ==
    \E t \in TaskIds :
      /\ cpc[t] = "returned"
      /\ cresult[t].result = "Timeout"
      /\ cresult[t].elapsed = config.task_timeout
      /\ config.task_timeout >= 1
      /\ upc[t] = "submit"

----------------------------------------------------------------------------
(***************************************************************************)
(* One validate_dag call on a task graph (DagSpec).                        *)
(***************************************************************************)
DagInit ==
    /\ ClockInit
    /\ SchedulerNew(1)
    /\ DispatcherNew(1)
    /\ NoCalls
    /\ OrchestratorNew(IdleConfig)
    /\ \E limit \in 1..(MaxUsize - 1), checks \in BOOLEAN :
         DagExecutorNew(limit, checks)
    /\ \E d \in Dags : NoValidation(d)
    /\ NoTopologicalSort
    /\ NoExecuteDag
    /\ NoSelect

DagNext ==
    \/ ValidateDag
         /\ UNCHANGED <<clockVars, schedVars, schedObs, dispVars, callVars, orchAll, selVars,
                        topoVars, execDagVars>>
    \/ DepthStep
         /\ UNCHANGED <<clockVars, schedVars, schedObs, dispVars, callVars, orchAll, selVars,
                        topoVars, execDagVars>>
    \/ DepthOverflowPanics
         /\ UNCHANGED <<clockVars, schedVars, schedObs, dispVars, callVars, orchAll, selVars,
                        topoVars, execDagVars>>
    \/ DepthReturn
         /\ UNCHANGED <<clockVars, schedVars, schedObs, dispVars, callVars, orchAll, selVars,
                        topoVars, execDagVars>>

DagSpec == DagInit /\ [][DagNext]_vars

(***************************************************************************)
(* Properties of DAG validation.                                           *)
(***************************************************************************)
\* C10: for every task graph that contains a directed cycle, a validate_dag
\* call that has ended has returned a report with has_cycles = true and
\* valid = false.
C10_CyclicGraphIsReported ==
    (vpc \notin {"idle", "depth"} /\ is_cyclic_directed(build_graph(dag)))
       => /\ vpc = "returned"
          /\ validation.has_cycles
          /\ ~validation.valid

----------------------------------------------------------------------------
(***************************************************************************)
(* One topological_sort call on a task graph (TopoSpec).                   *)
(***************************************************************************)
TopoInit ==
    /\ ClockInit
    /\ SchedulerNew(1)
    /\ DispatcherNew(1)
    /\ NoCalls
    /\ OrchestratorNew(IdleConfig)
    /\ DagExecutorNew(1, TRUE)
    /\ \E d \in Dags : NoValidation(d)
    /\ NoTopologicalSort
    /\ NoExecuteDag
    /\ NoSelect

TopoNext ==
    TopologicalSort
      /\ UNCHANGED <<clockVars, schedVars, schedObs, dispVars, callVars, orchAll, selVars,
                     execDagVars>>

TopoSpec == TopoInit /\ [][TopoNext]_vars

(***************************************************************************)
(* Properties of topological_sort.                                         *)
(***************************************************************************)
\* C11: for every task graph that contains a directed cycle, a
\* topological_sort call has failed with the validation error and has
\* returned no order.
C11_CyclicGraphHasNoOrder ==
    (topo_result.called /\ is_cyclic_directed(build_graph(dag)))
       => (~topo_result.ok /\ topo_result.order = <<>>)

\* topological_sort has failed on a graph with a cycle through two nodes.
C11_Witness ==
    /\ topo_result.called
    /\ ~topo_result.ok
    /\ \E a, b \in dag.nodes : a # b /\ <<a, b>> \in dag.edges /\ <<b, a>> \in dag.edges

\* The position of node n in the sequence order (0: not in it).
PositionIn(order, n) ==
    IF \E i \in 1..Len(order) : order[i] = n
    THEN CHOOSE i \in 1..Len(order) : order[i] = n
    ELSE 0

\* C12: for every acyclic graph, topological_sort has returned a sequence
\* that contains each node id exactly once and in which, for every edge
\* between existing nodes, the edge's source comes before its target; for the
\* chain 1 -> 2 -> 3 the sequence is <<1, 2, 3>>.
C12_OrderRespectsEveryEdge ==
    (topo_result.called /\ ~is_cyclic_directed(build_graph(dag)))
       => /\ topo_result.ok
          /\ Len(topo_result.order) = Cardinality(dag.nodes)
          /\ {topo_result.order[i] : i \in 1..Len(topo_result.order)} = dag.nodes
          /\ \A e \in dag.edges :
               (e[1] \in dag.nodes /\ e[2] \in dag.nodes)
                  => PositionIn(topo_result.order, e[1])
                        < PositionIn(topo_result.order, e[2])
          /\ (dag.nodes = {1, 2, 3} /\ dag.edges = {<<1, 2>>, <<2, 3>>})
                => topo_result.order = <<1, 2, 3>>

\* topological_sort has ordered a graph in which a node has two predecessors,
\* the predecessor with the greater id first.
C12_Witness ==
    /\ topo_result.called
    /\ topo_result.ok
    /\ Len(topo_result.order) = 3
    /\ \E a, b, c \in dag.nodes :
         a # b /\ <<a, c>> \in dag.edges /\ <<b, c>> \in dag.edges
    /\ topo_result.order[1] > topo_result.order[2]

----------------------------------------------------------------------------
(***************************************************************************)
(* One execute_dag call on a task graph (ExecSpec).                        *)
(***************************************************************************)
ExecInit ==
    /\ ClockInit
    /\ SchedulerNew(1)
    /\ DispatcherNew(1)
    /\ NoCalls
    /\ OrchestratorNew(IdleConfig)
    /\ \E checks \in BOOLEAN : DagExecutorNew(MaxUsize - 1, checks)
    /\ \E n \in 0..NumNodes : \E d \in ExecDags(n) : NoValidation(d)
    /\ NoTopologicalSort
    /\ NoExecuteDag
    /\ NoSelect

ExecNext ==
    \/ ExecuteDag
         /\ UNCHANGED <<clockVars, schedVars, schedObs, dispVars, callVars, orchAll, selVars,
                        topoVars>>
    \/ DepthStep
         /\ UNCHANGED <<clockVars, schedVars, schedObs, dispVars, callVars, orchAll, selVars,
                        topoVars, execDagVars>>
    \/ DepthOverflowPanics
         /\ UNCHANGED <<clockVars, schedVars, schedObs, dispVars, callVars, orchAll, selVars,
                        topoVars, execDagVars>>
    \/ DepthReturn
         /\ UNCHANGED <<clockVars, schedVars, schedObs, dispVars, callVars, orchAll, selVars,
                        topoVars, execDagVars>>
    \/ ExecuteInvalid
         /\ UNCHANGED <<clockVars, schedVars, schedObs, dispVars, callVars, orchAll, selVars,
                        topoVars>>
    \/ ExecuteValid
         /\ UNCHANGED <<clockVars, schedVars, schedObs, dispVars, callVars, orchAll, selVars,
                        topoVars>>

ExecSpec == ExecInit /\ [][ExecNext]_vars

\* The set of the ids in a list of task ids.
IdsOf(list) == {list[i] : i \in 1..Len(list)}

\* The nodes that n depends on, directly or through the dependency lists of
\* the nodes it depends on.
RECURSIVE DependencyClosure(_, _)
DependencyClosure(d, S) ==
    LET more == S \cup UNION {d.dependencies[m] : m \in S \cap d.nodes}
    IN IF more = S THEN S ELSE DependencyClosure(d, more)

TransitiveDependencies(d, n) == DependencyClosure(d, d.dependencies[n])

\* C13: for a valid DAG whose nodes all start Pending (the dependency lists
\* mirror the edges), execute_dag reports every node in completed_tasks and
\* none in skipped_tasks.
C13_AllPendingDagCompletesEveryNode ==
    (/\ epc = "returned"
     /\ exec_result.ok
     /\ \A n \in dag.nodes : dag.status[n] = "Pending")
       => /\ IdsOf(exec_result.completed_tasks) = dag.nodes
          /\ exec_result.skipped_tasks = <<>>

\* C14: a node that lists a dependency whose node is not Completed is placed
\* in skipped_tasks and is not in completed_tasks.
C14_UnmetDependencyIsSkipped ==
    (epc = "returned" /\ exec_result.ok)
       => \A n \in dag.nodes :
            (\E dep \in dag.dependencies[n] : dag.status[dep] # "Completed")
              => /\ n \in IdsOf(exec_result.skipped_tasks)
                 /\ n \notin IdsOf(exec_result.completed_tasks)

\* B depends on A, A was marked Failed beforehand: the call returned with A
\* executed and B skipped.
C14_Witness ==
    /\ epc = "returned"
    /\ exec_result.ok
    /\ \E a, b \in dag.nodes :
         /\ dag.status[a] = "Failed"
         /\ a \in dag.dependencies[b]
         /\ a \in IdsOf(exec_result.completed_tasks)
         /\ b \in IdsOf(exec_result.skipped_tasks)

\* A list of node ids is in topological order: no node of the list can be
\* reached from a node that comes later in it.
InTopologicalOrder(list) ==
    LET g == build_graph(dag)
    IN \A i, j \in 1..Len(list) :
         i < j => list[i] \notin ReachableFrom(g, {list[j]})

\* C38: for every valid DAG, the completed_tasks and skipped_tasks that
\* execute_dag returns are disjoint, together hold every node id exactly
\* once, are each in topological order, and failed_tasks is empty.
C38_CompletedAndSkippedPartitionTheNodes ==
    (epc = "returned" /\ validation.valid)
       => /\ exec_result.ok
          /\ IdsOf(exec_result.completed_tasks) \cap IdsOf(exec_result.skipped_tasks) = {}
          /\ IdsOf(exec_result.completed_tasks) \cup IdsOf(exec_result.skipped_tasks)
               = dag.nodes
          /\ Len(exec_result.completed_tasks) + Len(exec_result.skipped_tasks)
               = Cardinality(dag.nodes)
          /\ InTopologicalOrder(exec_result.completed_tasks)
          /\ InTopologicalOrder(exec_result.skipped_tasks)
          /\ exec_result.failed_tasks = <<>>

\* A valid DAG of three nodes with two of them skipped, one below the other.
C38_Witness ==
    /\ epc = "returned"
    /\ validation.valid
    /\ Len(exec_result.completed_tasks) = 1
    /\ Len(exec_result.skipped_tasks) = 2
    /\ <<exec_result.skipped_tasks[1], exec_result.skipped_tasks[2]>> \in dag.edges

\* C15: in the result of execute_dag, every node that depends directly or
\* transitively on a node in skipped_tasks is itself in skipped_tasks.
C15_SkipCascadesToDependents ==
    (epc = "returned" /\ exec_result.ok)
       => \A n \in dag.nodes :
            \A m \in TransitiveDependencies(dag, n) :
               m \in IdsOf(exec_result.skipped_tasks)
                 => n \in IdsOf(exec_result.skipped_tasks)

\* The graph has a cycle or an unreachable node, or validate_dag returned a
\* report that is not valid.
ReportNotValid ==
    \/ is_cyclic_directed(build_graph(dag))
    \/ find_unreachable_nodes(build_graph(dag)) # {}
    \/ vpc = "returned" /\ ~validation.valid

\* C16: execute_dag on a DAG whose validation report is not valid ends by
\* returning the validation error, with no node executed.
C16_InvalidDagReturnsValidationError ==
    (/\ epc # "idle"
     /\ ReportNotValid
     /\ vpc = "panicked" \/ epc = "returned")
       => /\ epc = "returned"
          /\ exec_result = ValidationError

----------------------------------------------------------------------------
(***************************************************************************)
(* Agent selection called on its own (SelectSpec).                         *)
(***************************************************************************)
SelectInit ==
    /\ ClockInit
    /\ SchedulerNew(1)
    /\ DispatcherNew(1)
    /\ NoCalls
    /\ OrchestratorNew(IdleConfig)
    /\ DagExecutorNew(1, TRUE)
    /\ NoValidation(EmptyDag)
    /\ NoTopologicalSort
    /\ NoExecuteDag
    /\ NoSelect

SelectNext ==
    \/ DispatcherSelectBestMatch
         /\ UNCHANGED <<clockVars, schedVars, schedObs, dispVars, callVars, orchAll,
                        dagAll>>
    \/ DefaultSelectorSelect
         /\ UNCHANGED <<clockVars, schedVars, schedObs, dispVars, callVars, orchAll,
                        dagAll>>

SelectSpec == SelectInit /\ [][SelectNext]_vars

\* The least element of a non-empty set of list positions.
FirstOf(S) == CHOOSE i \in S : \A j \in S : i <= j

\* C17: BestMatch returns an available worker of the requested provider
\* whenever there is one, wherever it stands in the candidate list; when no
\* available worker matches it returns the first available worker of the
\* list; it never returns a worker that reported unavailable.
C17_BestMatchPrefersRequestedProvider ==
    (sel.who # "none" /\ sel.strategy = "BestMatch")
       => LET hits == {i \in sel.reports : sel.providers[i] = sel.wanted}
          IN /\ sel.reports = {} => sel.result = 0
             /\ sel.reports # {} => sel.result \in sel.reports
             /\ hits # {} => sel.providers[sel.result] = sel.wanted
             /\ (sel.reports # {} /\ hits = {}) => sel.result = FirstOf(sel.reports)

\* The worker returned is of the requested provider and is not the first
\* available one, and an earlier worker of that provider reported
\* unavailable.
C17_Witness ==
    /\ sel.who = "TaskDispatcher"
    /\ sel.result \in sel.reports
    /\ sel.providers[sel.result] = sel.wanted
    /\ sel.result > FirstOf(sel.reports)
    /\ \E i \in DOMAIN sel.providers :
         i < sel.result /\ i \notin sel.reports /\ sel.providers[i] = sel.wanted

----------------------------------------------------------------------------
(***************************************************************************)
(* Cancellation, the wait timeout and final statuses (OrchSpec).           *)
(***************************************************************************)
\* The execution units that were spawned and have not finished.
RunningUnits == {t \in TaskIds : upc[t] \in {"loop", "submit", "delay"}}

\* The unit of t ended because execute_task_with_retry returned: with Ok
\* after a successful attempt, or with the error after the last attempt.
EndedByOutcome(t) ==
    \/ /\ uret[t].ok
       /\ ulog[t] # <<>>
       /\ ulog[t][Len(ulog[t])] = "ok"
    \/ /\ ~uret[t].ok
       /\ attempts[t] = config.retry_attempts

\* C19: cancel and the wait timeout of execute_task are status-only: every
\* execution unit that has not finished holds its permit, whatever happened
\* to its table entry or to its caller, and a unit finishes (and gives the
\* permit back) only when its retry loop has reached its outcome, never
\* because of a cancel or a timeout.
C19_CancelAndTimeoutAreStatusOnly ==
    /\ task_semaphore + Cardinality(RunningUnits) = config.max_concurrent_tasks
    /\ \A t \in TaskIds : upc[t] = "done" => EndedByOutcome(t)

\* The caller timed out and the task was cancelled afterwards, while the
\* unit is inside a worker call on a retry and holds the only permit.
C19_Witness ==
    \E t \in TaskIds :
      /\ cpc[t] = "returned"
      /\ cresult[t].result = "Timeout"
      /\ get_task_status(active_tasks, t) = "Cancelled"
      /\ upc[t] = "submit"
      /\ attempts[t] >= 2
      /\ task_semaphore = 0

\* C20: once a task's execution unit has reached its outcome, get_task_status
\* returns Completed (an attempt succeeded) or Failed (retries exhausted).
C20_FinalStatusStaysReadable ==
    \A t \in TaskIds :
      upc[t] = "done"
        => get_task_status(active_tasks, t)
             = IF uret[t].ok THEN "Completed" ELSE "Failed"

----------------------------------------------------------------------------
(***************************************************************************)
(* The active-task table under the calls that touch it (TableSpec).        *)
(***************************************************************************)
TableInit ==
    /\ ClockInit
    /\ SchedulerNew(OrchQueueSize)
    /\ DispatcherNew(1)
    /\ NoCalls
    /\ OrchestratorNew(IdleConfig)
    /\ DagExecutorNew(1, TRUE)
    /\ NoValidation(EmptyDag)
    /\ NoTopologicalSort
    /\ NoExecuteDag
    /\ NoSelect

TableNext ==
    \/ \E id \in TaskIds :
         TableInsert(id)
           /\ UNCHANGED <<afterFull, schedOrder, returned, dispVars, callVars,
                          dagAll, selVars>>
    \/ \E id \in TaskIds :
         TableRemove(id)
           /\ UNCHANGED <<afterFull, schedOrder, returned, dispVars, callVars,
                          dagAll, selVars>>
    \/ \E id \in TaskIds :
         CancelTaskCall(id)
           /\ UNCHANGED <<afterFull, schedOrder, returned, dispVars, callVars,
                          dagAll, selVars>>
    \/ \E id \in TaskIds :
         GetTaskStatusCall(id)
           /\ UNCHANGED <<afterFull, schedOrder, returned, dispVars, callVars,
                          dagAll, selVars>>
    \/ Tick

TableSpec == TableInit /\ [][TableNext]_vars

\* C18: cancel_task(id) for an id without entry fails with the not-found
\* error and leaves the table as it was; for an id with an entry it returns
\* Ok, that entry's status is Cancelled, and every other entry is as it was.
C18_CancelTouchesOnlyItsEntry ==
    lastOp.op = "cancel_task"
      => LET id == lastOp.before.id
             table == lastOp.before.active_tasks
         IN IF id \notin DOMAIN table
            THEN /\ lastOp.result = TaskNotFound
                 /\ active_tasks = table
            ELSE /\ lastOp.result = "ok"
                 /\ DOMAIN active_tasks = DOMAIN table
                 /\ get_task_status(active_tasks, id) = "Cancelled"
                 /\ \A other \in DOMAIN table \ {id} :
                      active_tasks[other] = table[other]

\* A cancel_task call has just cancelled a Pending entry while another
\* entry of the table is Pending.
C18_Witness ==
    /\ lastOp.op = "cancel_task"
    /\ lastOp.result = "ok"
    /\ lastOp.before.active_tasks[lastOp.before.id] = "Pending"
    /\ \E other \in DOMAIN active_tasks \ {lastOp.before.id} :
         active_tasks[other] = "Pending"

----------------------------------------------------------------------------
(***************************************************************************)
(* The status of a task while its execution unit runs (OrchSpec).          *)
(***************************************************************************)
\* C39: with retry_attempts = 0 execute_task_with_retry makes no attempt:
\* the selector and the workers are never called, and the unit ends with
\* the internal error 'Max retry attempts reached', a failure.
C39_ZeroAttemptsFailsWithoutTrying ==
    config.retry_attempts = 0
      => \A t \in TaskIds :
           /\ attempts[t] = 0
           /\ ulog[t] = <<>>
           /\ upc[t] \notin {"submit", "delay"}
           /\ last_error[t] = NoError
           /\ upc[t] = "done"
                => /\ ~uret[t].ok
                   /\ uret[t].error = MaxRetryError

\* A unit has ended without an attempt.
C39_Witness ==
    /\ config.retry_attempts = 0
    /\ \E t \in TaskIds :
         /\ upc[t] = "done"
         /\ attempts[t] = 0
         /\ uret[t].error = MaxRetryError
         /\ t \notin DOMAIN active_tasks

C30_WaitsRetryDelayBetweenAttempts ==
    [][\A t \in TaskIds :
         (/\ Len(ulog'[t]) = Len(ulog[t]) + 1
          /\ ulog'[t][Len(ulog'[t])] = "fail")
            => (upc'[t] = "delay" <=> attempts'[t] < config.retry_attempts)]_vars

\* C21: from the start of a task's execution unit until the unit reaches its
\* outcome, the task's status in the active-task table is Running, unless
\* a cancel has set it to Cancelled.
C21_RunningWhileUnitRuns ==
    \A t \in RunningUnits :
       get_task_status(active_tasks, t) \in {"Running", "Cancelled"}

----------------------------------------------------------------------------
(***************************************************************************)
(* The dequeue loop and the execution units under several tasks (FeedSpec) *)
(***************************************************************************)
FeedInit ==
    /\ ClockInit
    /\ SchedulerNew(OrchQueueSize)
    /\ \E cfg \in FeedConfigs :
         /\ OrchestratorNew(cfg)
         /\ DispatcherNew(cfg.max_concurrent_tasks)
    /\ NoCalls
    /\ DagExecutorNew(1, TRUE)
    /\ NoValidation(EmptyDag)
    /\ NoTopologicalSort
    /\ NoExecuteDag
    /\ NoSelect

FeedNext ==
    \/ Start /\ UNCHANGED <<schedObs, dispVars, callVars, dagAll, selVars>>
    \/ \E id \in TaskIds, p \in {Low, High} :
         SubmitTask(id, p) /\ UNCHANGED <<schedObs, dispVars, callVars, dagAll, selVars>>
    \/ \E id \in TaskIds : LoopNext(id) /\ UNCHANGED <<schedObs, dispVars, callVars, dagAll, selVars>>
    \/ LoopIdle /\ UNCHANGED <<schedObs, dispVars, callVars, dagAll, selVars>>
    \/ LoopWake /\ UNCHANGED <<schedObs, dispVars, callVars, dagAll, selVars>>
    \/ LoopAcquire /\ UNCHANGED <<schedObs, dispVars, callVars, dagAll, selVars>>
    \/ \E t \in TaskIds, selected \in BOOLEAN :
         UnitAttempt(t, selected) /\ UNCHANGED <<schedObs, dispVars, callVars, dagAll, selVars>>
    \/ \E t \in TaskIds : UnitSubmitOk(t) /\ UNCHANGED <<schedObs, dispVars, callVars, dagAll, selVars>>
    \/ \E t \in TaskIds : UnitSubmitErr(t) /\ UNCHANGED <<schedObs, dispVars, callVars, dagAll, selVars>>
    \/ \E t \in TaskIds : UnitDelayDone(t) /\ UNCHANGED <<schedObs, dispVars, callVars, dagAll, selVars>>
    \/ \E t \in TaskIds : UnitExhausted(t) /\ UNCHANGED <<schedObs, dispVars, callVars, dagAll, selVars>>

FeedSpec == FeedInit /\ [][FeedNext]_vars

\* C22: the number of execution units running the retry loop never exceeds
\* max_concurrent_tasks, however many tasks are queued and however the
\* dequeue loop and the units interleave.
C22_AtMostMaxConcurrentUnits ==
    Cardinality(RunningUnits) <= config.max_concurrent_tasks

\* Every permit is taken by a running unit while the loop has dequeued one
\* more task and waits for a permit.
C22_Witness ==
    /\ Cardinality(RunningUnits) = config.max_concurrent_tasks
    /\ task_semaphore = 0
    /\ lpc = "acquire"
    /\ ltask \notin RunningUnits

\* C31: the dequeue loop never waits for a running unit: while the queue is
\* not empty (or the loop holds a task it has dequeued) and fewer than
\* max_concurrent_tasks units hold a slot, the loop's next step can be
\* taken: it dequeues at next_task, and it gets a permit and starts the
\* unit at acquire_owned, whatever the earlier units are doing.
C31_LoopDoesNotWaitForUnits ==
    Cardinality(RunningUnits) < config.max_concurrent_tasks
      => /\ (lpc = "next" /\ DOMAIN queue # {})
              => ENABLED (\E id \in TaskIds : LoopNext(id))
         /\ lpc = "acquire" => ENABLED LoopAcquire
         /\ lpc = "sleep" => ENABLED LoopWake

\* A unit is started while an earlier unit is still in its retry loop.
C31_Witness ==
    /\ Cardinality(RunningUnits) = 2
    /\ \E t \in RunningUnits : attempts[t] = 0
    /\ \E t \in RunningUnits : upc[t] = "delay"

\* One step of the dequeue loop, and one step of the execution unit of t.
LoopStep ==
    /\ \/ \E id \in TaskIds : LoopNext(id)
       \/ LoopIdle
       \/ LoopWake
       \/ LoopAcquire
    /\ UNCHANGED <<schedObs, dispVars, callVars, dagAll, selVars>>

UnitStep(t) ==
    /\ \/ \E selected \in BOOLEAN : UnitAttempt(t, selected)
       \/ UnitSubmitOk(t)
       \/ UnitSubmitErr(t)
       \/ UnitDelayDone(t)
       \/ UnitExhausted(t)
    /\ UNCHANGED <<schedObs, dispVars, callVars, dagAll, selVars>>

\* The loop and the units are tasks of the runtime, which runs every task
\* that can go on; a worker call returns, and a sleep ends.
FairFeedConfigs ==
    [max_concurrent_tasks : {1, 2}, task_timeout : {0}, retry_attempts : {0, 2}]

FairFeedInit ==
    /\ ClockInit
    /\ SchedulerNew(OrchQueueSize)
    /\ \E cfg \in FairFeedConfigs :
         /\ OrchestratorNew(cfg)
         /\ DispatcherNew(cfg.max_concurrent_tasks)
    /\ NoCalls
    /\ DagExecutorNew(1, TRUE)
    /\ NoValidation(EmptyDag)
    /\ NoTopologicalSort
    /\ NoExecuteDag
    /\ NoSelect

FairFeedSpec ==
    /\ FairFeedInit
    /\ [][FeedNext]_vars
    /\ WF_vars(LoopStep)
    /\ \A t \in TaskIds : WF_vars(UnitStep(t))

\* No execution unit holds a slot and the loop holds no dequeued task.
AllSlotsFree ==
    /\ task_semaphore = config.max_concurrent_tasks
    /\ RunningUnits = {}
    /\ lpc # "acquire"

\* C40: with the dequeue loop started, finitely many tasks submitted and
\* every worker call returning, every task accepted by schedule_task is
\* dequeued and its execution unit finishes, and all max_concurrent_tasks
\* slots become free again.
C40_EveryAcceptedTaskFinishes ==
    /\ \A t \in TaskIds :
         (lpc # "off" /\ t \in DOMAIN queue) ~> (t \notin DOMAIN queue /\ upc[t] = "done")
    /\ (lpc # "off") ~> (DOMAIN queue = {} /\ AllSlotsFree)

\* Every task has been through one slot, the first of them after retries.
C40_Witness ==
    /\ config.max_concurrent_tasks = 1
    /\ config.retry_attempts > 1
    /\ \A t \in TaskIds : upc[t] = "done"
    /\ Len(ulog[1]) > 1
    /\ DOMAIN queue = {}
    /\ AllSlotsFree

----------------------------------------------------------------------------
(***************************************************************************)
(* The validation report (DagSpec).                                        *)
(***************************************************************************)
\* The number of edges on the longest path that starts at node n of an
\* acyclic graph.
RECURSIVE LongestFrom(_, _)
LongestFrom(g, n) ==
    IF Outgoing(g, n) = {} THEN 0
    ELSE LET below == {LongestFrom(g, m) : m \in Outgoing(g, n)}
         IN 1 + CHOOSE x \in below : \A y \in below : x >= y

\* The number of edges on the longest path from any root of an acyclic
\* graph; 0 for a graph without nodes.
LongestPath(g) ==
    LET from == {LongestFrom(g, r) : r \in Roots(g)}
    IN IF from = {} THEN 0 ELSE CHOOSE x \in from : \A y \in from : x >= y

\* C23: the report says valid exactly when the graph has no cycle, has no
\* unreachable node and the reported max_depth is at most the configured
\* bound.
C23_ValidIffAcyclicReachableShallow ==
    vpc = "returned"
      => LET g == build_graph(dag)
         IN validation.valid
              <=> /\ ~is_cyclic_directed(g)
                  /\ find_unreachable_nodes(g) = {}
                  /\ validation.max_depth <= self_max_depth

\* An acyclic graph in which every node is reachable, deeper than the
\* bound: reported invalid.
C23_Witness ==
    /\ vpc = "returned"
    /\ ~is_cyclic_directed(build_graph(dag))
    /\ find_unreachable_nodes(build_graph(dag)) = {}
    /\ LongestPath(build_graph(dag)) > self_max_depth
    /\ ~validation.valid

\* C24: for an acyclic graph the reported max_depth is the number of edges
\* on the longest path from any root; 0 for a graph without edges.
C24_MaxDepthIsLongestPath ==
    (vpc = "returned" /\ ~is_cyclic_directed(build_graph(dag)))
      => /\ validation.max_depth = LongestPath(build_graph(dag))
         /\ build_graph(dag).edges = {} => validation.max_depth = 0

\* A node is reached from a root over one edge and over two: the report
\* gives depth 2.
C24_Witness ==
    /\ vpc = "returned"
    /\ \E a, b, c \in dag.nodes :
         /\ {<<a, b>>, <<b, c>>, <<a, c>>} \subseteq build_graph(dag).edges
         /\ a \in Roots(build_graph(dag))
    /\ ~is_cyclic_directed(build_graph(dag))
    /\ validation.max_depth = 2

\* C33: validate_dag never reports valid = true for a TaskDag with an edge
\* whose from or to id is not a node of the dag.
C33_ValidDagHasNoDanglingEdge ==
    (vpc = "returned" /\ validation.valid)
      => \A e \in dag.edges : e[1] \in dag.nodes /\ e[2] \in dag.nodes

\* C36: a validate_dag call on a finite TaskDag ends by returning a report,
\* also when a directed cycle can be reached from a node without incoming
\* edges: the call is never ended by anything else.
C36_ValidateEndsWithReport ==
    vpc \in {"idle", "depth", "returned"}

\* C37: for every acyclic task graph the report's unreachable_nodes is
\* empty; whenever unreachable_nodes is not empty, has_cycles is true.
C37_UnreachableOnlyWithCycles ==
    vpc # "idle"
      => /\ ~is_cyclic_directed(build_graph(dag)) => validation.unreachable_nodes = {}
         /\ validation.unreachable_nodes # {} => validation.has_cycles

\* The report for an acyclic graph with two roots and a node below them.
C37_Witness ==
    /\ vpc = "returned"
    /\ ~validation.has_cycles
    /\ validation.unreachable_nodes = {}
    /\ Cardinality(Roots(build_graph(dag))) = 2
    /\ Cardinality(dag.nodes) = 3
    /\ Cardinality(build_graph(dag).edges) = 2

----------------------------------------------------------------------------
(***************************************************************************)
(* The scheduler with the queue entries observed per id (QueueSpec).       *)
(***************************************************************************)
QueueInit ==
    /\ ClockInit
    /\ \E capacity \in 1..NumTasks : SchedulerNew(capacity)
    /\ DispatcherNew(1)
    /\ NoCalls
    /\ OrchestratorNew(IdleConfig)
    /\ DagExecutorNew(1, TRUE)
    /\ NoValidation(EmptyDag)
    /\ NoTopologicalSort
    /\ NoExecuteDag
    /\ NoSelect

QueueNext ==
    \/ \E id \in TaskIds, p \in {Low, High} :
         ScheduleCall(id, p)
           /\ UNCHANGED <<afterFull, schedOrder, returned, dispVars, callVars,
                          orchAll, dagAll, selVars>>
    \/ \E id \in TaskIds :
         NextCall(id)
           /\ UNCHANGED <<afterFull, schedOrder, returned, dispVars, callVars,
                          orchAll, dagAll, selVars>>
    \/ \E id \in TaskIds, p \in {Low, High} :
         RequeueCall(id, p)
           /\ UNCHANGED <<afterFull, schedOrder, returned, dispVars, callVars,
                          orchAll, dagAll, selVars>>
    \/ Tick

QueueSpec == QueueInit /\ [][QueueNext]_vars

\* C25: each task id is in the queue at most once: the queue and the tracked
\* tasks hold the same ids, a requeue of an id that is queued leaves the
\* number of entries as it was, and an id returned by next is no longer
\* queued, so it is not returned again before it is scheduled or requeued.
C25_EachIdQueuedAtMostOnce ==
    /\ DOMAIN queue = DOMAIN tasks
    /\ (lastOp.op = "requeue" /\ lastOp.before.queued)
         => Cardinality(DOMAIN queue) = lastOp.lenBefore
    /\ (lastOp.op = "requeue" /\ ~lastOp.before.queued)
         => Cardinality(DOMAIN queue) = lastOp.lenBefore + 1
    /\ (lastOp.op = "next" /\ lastOp.result = "some")
         => /\ lastOp.before.id \notin DOMAIN queue
            /\ Cardinality(DOMAIN queue) = lastOp.lenBefore - 1

\* A queued id was requeued after time has passed: still one entry for it,
\* carrying the time of the requeue.
C25_Witness ==
    /\ lastOp.op = "requeue"
    /\ lastOp.before.queued
    /\ lastOp.lenBefore = 1
    /\ Cardinality(DOMAIN queue) = 1
    /\ queue[lastOp.before.id].timestamp > 0

\* C26: requeue of a task whose id has no tracked entry succeeds, creates a
\* pending entry keyed with the current time, and adds one to the requeued
\* counter while the scheduled counter stays as it was.
C26_RequeueOfUntrackedCreatesEntry ==
    (lastOp.op = "requeue" /\ ~lastOp.before.tracked)
      => LET id == lastOp.before.id
         IN /\ lastOp.result = "ok"
            /\ id \in DOMAIN queue
            /\ id \in DOMAIN tasks
            /\ queue[id].timestamp = lastOp.before.wall
            /\ tasks[id].scheduled_at = lastOp.before.now
            /\ tasks[id].attempt_count = 1
            /\ tasks[id].task.status = "Pending"
            /\ stats.total_requeued = lastOp.before.stats.total_requeued + 1
            /\ stats.total_scheduled = lastOp.before.stats.total_scheduled

\* The first call on a new scheduler, after time has passed, is a requeue.
C26_Witness ==
    /\ lastOp.op = "requeue"
    /\ ~lastOp.before.tracked
    /\ lastOp.lenBefore = 0
    /\ now > 0
    /\ stats.total_requeued = 1
    /\ stats.total_scheduled = 0
    /\ DOMAIN queue = {lastOp.before.id}

\* C35: after any sequence of schedule, next and requeue calls the number of
\* pending entries is at most max_queue_size.
C35_QueueNeverExceedsCapacity ==
    Cardinality(DOMAIN queue) <= max_queue_size

----------------------------------------------------------------------------
(***************************************************************************)
(* Concurrent dispatch calls on one worker list (ListSpec).                *)
(***************************************************************************)
ListInit ==
    /\ ClockInit
    /\ SchedulerNew(1)
    /\ \E capacity \in 1..MaxConcurrent : DispatcherNew(capacity)
    /\ NoCalls
    /\ OrchestratorNew(IdleConfig)
    /\ DagExecutorNew(1, TRUE)
    /\ NoValidation(EmptyDag)
    /\ NoTopologicalSort
    /\ NoExecuteDag
    /\ \E n \in 1..MaxAgents : \E reports \in SUBSET (1..n) :
         sel = [who |-> "dispatch", providers |-> WorkerList(n),
                reports |-> reports, strategy |-> "RoundRobin",
                wanted |-> "OpenAI", result |-> 0]

ListNext ==
    \/ \E c \in Calls :
         ListDispatch(c)
           /\ UNCHANGED <<clockVars, schedVars, afterFull, schedOrder, returned,
                          orchAll, dagAll, selVars>>
    \/ \E c \in Calls :
         ListAcquire(c)
           /\ UNCHANGED <<clockVars, schedVars, afterFull, schedOrder, returned,
                          orchAll, dagAll, selVars>>
    \/ \E c \in Calls, in \in ListInputs :
         ListSelectNone(c, in)
           /\ UNCHANGED <<clockVars, schedVars, afterFull, schedOrder, returned,
                          orchAll, dagAll, selVars>>
    \/ \E c \in Calls, in \in ListInputs :
         ListSelectSome(c, in)
           /\ UNCHANGED <<clockVars, schedVars, afterFull, schedOrder, returned,
                          orchAll, dagAll, selVars>>
    \/ \E c \in Calls :
         ListSubmitReturns(c, TRUE)
           /\ UNCHANGED <<clockVars, schedVars, afterFull, schedOrder, returned,
                          orchAll, dagAll, selVars>>

ListSpec == ListInit /\ [][ListNext]_vars

\* C27: when no worker of the list reports available, every dispatch call
\* fails with the no-available-agents error, no call reaches submit on a
\* worker, no tracking entry exists at any time, and a call that has
\* returned holds no permit: the permits out are those of the calls that
\* are between the gate and their selection.
C27_NoAvailableAgentsFailsClean ==
    ListAvailable = <<>>
      => /\ dresults \subseteq {"no_agents"}
         /\ \A c \in Calls : dpc[c] = "returned" => "no_agents" \in dresults
         /\ \A c \in Calls : dpc[c] # "submit" /\ dagent[c] = 0
         /\ active_requests = EmptyMap
         /\ DispatchStats.active_requests = 0
         /\ semaphore = max_concurrent - Cardinality({c \in Calls : dpc[c] = "select"})
         /\ lastOp.op = "select_agent" => lastOp.result = 0

\* Every call on a list of several workers, none available, has returned.
C27_Witness ==
    /\ Len(sel.providers) > 1
    /\ ListAvailable = <<>>
    /\ \A c \in Calls : dpc[c] = "returned"
    /\ dresults = {"no_agents"}
    /\ semaphore = max_concurrent

\* The positions in the log of the selections made under RoundRobin.
RoundRobinPicks == {i \in 1..Len(AllPicks) : AllPicks[i].strategy = "RoundRobin"}

\* C28: under RoundRobin every selection reads a value of the shared counter
\* that no other selection reads, later selections read larger values, and
\* the worker chosen is the one at index (value mod |A|) of the available
\* workers A; any |A| RoundRobin selections that read consecutive values
\* choose each available worker exactly once.
C28_RoundRobinRotates ==
    LET k == Len(ListAvailable)
    IN /\ \A i \in RoundRobinPicks :
            AllPicks[i].agent = ListAvailable[(AllPicks[i].count % k) + 1]
       /\ \A i, j \in 1..Len(AllPicks) :
            (i < j /\ i \in RoundRobinPicks) => AllPicks[i].count < AllPicks[j].count
       /\ \A i, j \in RoundRobinPicks :
            i < j => AllPicks[i].count < AllPicks[j].count
       /\ \A W \in SUBSET RoundRobinPicks :
            (/\ Cardinality(W) = k
             /\ \E first \in 0..request_counter :
                  {AllPicks[i].count : i \in W} = first..(first + k - 1))
              => /\ {AllPicks[i].agent : i \in W} = sel.reports
                 /\ \A i, j \in W : i # j => AllPicks[i].agent # AllPicks[j].agent

\* Three RoundRobin selections on three available workers, two of them by
\* calls that are in flight together.
C28_Witness ==
    /\ Len(ListAvailable) = 3
    /\ Cardinality(RoundRobinPicks) = 3
    /\ {AllPicks[i].count : i \in RoundRobinPicks} = 0..2
    /\ Cardinality({c \in Calls : dpc[c] = "submit"}) = 2

----------------------------------------------------------------------------
(***************************************************************************)
(* execute_task callers on an orchestrator whose queue fills (AdmitSpec).  *)
(* The scheduler's capacity of 1000 is stood for by a small one, so that   *)
(* a few callers fill the queue; every unit makes one attempt.             *)
(***************************************************************************)
AdmitCapacities == 1..NumTasks

AdmitConfigs ==
    [max_concurrent_tasks : {1}, task_timeout : {MaxTime}, retry_attempts : {1}]

AdmitInit ==
    /\ ClockInit
    /\ \E capacity \in AdmitCapacities : SchedulerNew(capacity)
    /\ \E cfg \in AdmitConfigs :
         /\ OrchestratorNew(cfg)
         /\ DispatcherNew(cfg.max_concurrent_tasks)
    /\ NoCalls
    /\ DagExecutorNew(1, TRUE)
    /\ NoValidation(EmptyDag)
    /\ NoTopologicalSort
    /\ NoExecuteDag
    /\ NoSelect

AdmitNext ==
    \/ Start /\ UNCHANGED <<schedObs, dispVars, callVars, dagAll, selVars>>
    \/ \E id \in TaskIds : LoopNext(id) /\ UNCHANGED <<schedObs, dispVars, callVars, dagAll, selVars>>
    \/ LoopIdle /\ UNCHANGED <<schedObs, dispVars, callVars, dagAll, selVars>>
    \/ LoopWake /\ UNCHANGED <<schedObs, dispVars, callVars, dagAll, selVars>>
    \/ LoopAcquire /\ UNCHANGED <<schedObs, dispVars, callVars, dagAll, selVars>>
    \/ \E t \in TaskIds, selected \in BOOLEAN :
         UnitAttempt(t, selected) /\ UNCHANGED <<schedObs, dispVars, callVars, dagAll, selVars>>
    \/ \E t \in TaskIds : UnitSubmitOk(t) /\ UNCHANGED <<schedObs, dispVars, callVars, dagAll, selVars>>
    \/ \E t \in TaskIds : UnitSubmitErr(t) /\ UNCHANGED <<schedObs, dispVars, callVars, dagAll, selVars>>
    \/ \E t \in TaskIds : UnitExhausted(t) /\ UNCHANGED <<schedObs, dispVars, callVars, dagAll, selVars>>
    \/ \E t \in TaskIds :
         ExecuteTask(t, Low) /\ UNCHANGED <<schedObs, dispVars, callVars, dagAll, selVars>>
    \/ \E t \in TaskIds : PollTable(t) /\ UNCHANGED <<schedObs, dispVars, callVars, dagAll, selVars>>
    \/ \E t \in TaskIds : TimedOut(t) /\ UNCHANGED <<schedObs, dispVars, callVars, dagAll, selVars>>
    \/ OrchTick /\ UNCHANGED <<schedObs, dispVars, callVars, dagAll, selVars>>

AdmitSpec == AdmitInit /\ [][AdmitNext]_vars

\* The execute_task calls that schedule_task refused.
Refused == {t \in TaskIds : cresult[t].result = "QueueFull"}

\* C32: an execute_task call whose schedule fails with queue-full has
\* returned that error at once: it never polled (no deadline was armed, no
\* time elapsed), the schedule was not tried again (the scheduled counter
\* counts the accepted calls only), and its task is neither in the queue nor
\* in the active-task table, and no unit was started for it.
C32_QueueFullReturnsAtOnce ==
    /\ \A t \in Refused :
         /\ cpc[t] = "returned"
         /\ cresult[t].elapsed = 0
         /\ cdeadline[t] = 0
         /\ t \notin DOMAIN queue
         /\ t \notin DOMAIN tasks
         /\ t \notin DOMAIN active_tasks
         /\ upc[t] = "none"
    /\ stats.total_scheduled
         = Cardinality({t \in TaskIds : cpc[t] # "idle"} \ Refused)

\* A call was refused while the queue was full; the queue has since been
\* emptied by the dequeue loop and the refused task is still nowhere.
C32_Witness ==
    /\ Refused # {}
    /\ DOMAIN queue = {}
    /\ \E t \in TaskIds : upc[t] = "done"

=============================================================================
